---- MODULE Spec2Model ----
(***************************************************************************)
(* The contract AIOracleAggregator (the version with the pending-task      *)
(* queue) as a state machine.  Every external function of the contract is  *)
(* one action; a reverted call leaves the storage unchanged and records    *)
(* the revert reason in `result`; a call of a view function records the    *)
(* values it returns in `returned`.                                        *)
(***************************************************************************)
EXTENDS Integers, Sequences, FiniteSets, TLC

VARIABLES
    owner,                  \* address public owner
    isOracle,               \* mapping(address => bool)
    oracleList,             \* address[]
    minRequiredSubmissions, \* uint256
    quorumPercent,          \* uint8
    hasSubmitted,           \* mapping(target => mapping(oracle => bool))
    assessments,            \* mapping(target => Assessment[])
    finalRisks,             \* mapping(target => FinalRisk)
    isFinalized,            \* mapping(target => bool)
    pendingContracts,       \* address[]
    isPending,              \* mapping(target => bool)
    now,                    \* block.timestamp of the current block
    call,                   \* the last call: the function and its target argument
    result,                 \* outcome of the last call: "ok" or the revert reason
    emitted,                \* events emitted by the last call, in order
    returned                \* return values of the last call (view functions)

vars == <<owner, isOracle, oracleList, minRequiredSubmissions, quorumPercent,
          hasSubmitted, assessments, finalRisks, isFinalized,
          pendingContracts, isPending, now, call, result, emitted,
          returned>>

storage == <<owner, isOracle, oracleList, minRequiredSubmissions, quorumPercent,
             hasSubmitted, assessments, finalRisks, isFinalized,
             pendingContracts, isPending>>

(***************************************************************************)
(* Bounds of the model.                                                    *)
(***************************************************************************)
NumIds == 3        \* caller identities 1..NumIds, plus the zero address
NumTargets == 2    \* targets 101..100+NumTargets, plus the zero address
MaxTime == 2       \* block.timestamp ranges over 1..MaxTime
MaxVotes == 6      \* votes per category in the tallies compared at 33%

\* address(0); caller identities are 1..NumIds, targets are 101..100+NumTargets
Identities == 0..NumIds
Targets == {0} \cup (101..(100 + NumTargets))

\* uint8 category: 0 = safe, 1 = caution, 2 = danger
Categories == {0, 1, 2}

ZeroFinalRisk ==
    [aggregatedScore |-> 0, category |-> 0, ipfsCid |-> "",
     timestamp |-> 0, numSubmittingOracles |-> 0]

(***************************************************************************)
(* Pure helpers of the contract.                                           *)
(***************************************************************************)

\* Mutant of _scoreToCategory: 30 falls on the caution side.
_scoreToCategoryStrict30(score) ==
    IF score < 30 THEN 0 ELSE IF score < 70 THEN 1 ELSE 2

\* _scoreToCategory(uint8 score)
_scoreToCategory(score) ==
    IF score <= 30 THEN 0 ELSE IF score < 70 THEN 1 ELSE 2

\* test/helpers.js scoreToCategory(score); "fail" stands for the thrown
\* chai assertion.
scoreToCategory(score) ==
    IF ~(score >= 0) THEN "fail"
    ELSE IF ~(score <= 100) THEN "fail"
    ELSE IF score <= 30 THEN 0
    ELSE IF score < 70 THEN 1
    ELSE 2

\* The tally loop of _tryFinalize: state after iterations i..n of
\* `totalScore += sc; catCount[_scoreToCategory(sc)]++`.
RECURSIVE TallyLoop(_, _, _, _)
TallyLoop(subs, i, catCount, totalScore) ==
    IF i > Len(subs) THEN [catCount |-> catCount, totalScore |-> totalScore]
    ELSE LET sc == subs[i].score
             cat == _scoreToCategory(sc)
         IN TallyLoop(subs, i + 1,
                      [catCount EXCEPT ![cat] = @ + 1], totalScore + sc)

\* Mutant of Tally: the loop starts one submission late.
TallySkipsFirst(subs) == TallyLoop(subs, 2, [c \in Categories |-> 0], 0)

Tally(subs) == TallyLoop(subs, 1, [c \in Categories |-> 0], 0)

\* The winner loop of _tryFinalize: c runs over 1, 2 and a strictly greater
\* count replaces the current winner.
RECURSIVE WinnerLoop(_, _, _, _)
WinnerLoop(catCount, c, winningCat, winningCount) ==
    IF c >= 3 THEN [winningCat |-> winningCat, winningCount |-> winningCount]
    ELSE IF catCount[c] > winningCount
         THEN WinnerLoop(catCount, c + 1, c, catCount[c])
         ELSE WinnerLoop(catCount, c + 1, winningCat, winningCount)

\* Mutant of Winner: among tied categories the highest-numbered wins.
WinnerLastOnTie(catCount) ==
    LET m == CHOOSE k \in {catCount[c] : c \in Categories} :
                 \A c \in Categories : catCount[c] <= k
        w == CHOOSE c \in Categories :
                 catCount[c] = m /\ \A d \in Categories : catCount[d] = m => d <= c
    IN [winningCat |-> w, winningCount |-> m]

\* Mutant of Winner: the loop over the categories 1 and 2 is not run.
WinnerFirstOnly(catCount) == [winningCat |-> 0, winningCount |-> catCount[0]]

Winner(catCount) == WinnerLoop(catCount, 1, 0, catCount[0])

\* The scan of _pickCid from index i on; it stops at the first submission of
\* the winning category with non-empty evidence (the `break`).
RECURSIVE PickLoop(_, _, _, _)
PickLoop(subs, i, fallbackCid, winningCat) ==
    IF i > Len(subs) THEN [firstMatch |-> "", fallbackCid |-> fallbackCid]
    ELSE LET fb == IF subs[i].ipfsCid # "" /\ fallbackCid = ""
                   THEN subs[i].ipfsCid ELSE fallbackCid
         IN IF _scoreToCategory(subs[i].score) = winningCat /\ subs[i].ipfsCid # ""
            THEN [firstMatch |-> subs[i].ipfsCid, fallbackCid |-> fb]
            ELSE PickLoop(subs, i + 1, fb, winningCat)

\* Mutants of _pickCid: the fallback preferred, and no fallback at all.
_pickCidFallbackFirst(subs, winningCat) ==
    LET r == PickLoop(subs, 1, "", winningCat)
    IN IF r.fallbackCid # "" THEN r.fallbackCid
       ELSE IF r.firstMatch # "" THEN r.firstMatch
       ELSE ""

_pickCidNoFallback(subs, winningCat) ==
    PickLoop(subs, 1, "", winningCat).firstMatch

\* _pickCid(subs, winningCat)
_pickCid(subs, winningCat) ==
    LET r == PickLoop(subs, 1, "", winningCat)
    IN IF r.firstMatch # "" THEN r.firstMatch
       ELSE IF r.fallbackCid # "" THEN r.fallbackCid
       ELSE ""

\* Position of the first occurrence of x in list, 0 when absent (the index
\* at which the removal loops of removeOracle and _removePending stop).
RECURSIVE IndexOf(_, _, _)
IndexOf(list, x, i) ==
    IF i > Len(list) THEN 0
    ELSE IF list[i] = x THEN i
    ELSE IndexOf(list, x, i + 1)

\* list[i] = list[len - 1]; list.pop()
SwapPop(list, i) ==
    LET len == Len(list)
    IN SubSeq([list EXCEPT ![i] = list[len]], 1, len - 1)

\* Mutant of _removePending: the last entry is copied over the target's and
\* not popped.
_removePendingNoPop(target) ==
    IF ~isPending[target]
    THEN [list |-> pendingContracts, flag |-> isPending]
    ELSE LET i == IndexOf(pendingContracts, target, 1)
         IN [list |-> IF i = 0 THEN pendingContracts
                      ELSE [pendingContracts EXCEPT
                               ![i] = pendingContracts[Len(pendingContracts)]],
             flag |-> [isPending EXCEPT ![target] = FALSE]]

\* Mutant of _removePending: the whole queue is emptied.
_removePendingClearsQueue(target) ==
    IF ~isPending[target]
    THEN [list |-> pendingContracts, flag |-> isPending]
    ELSE [list |-> <<>>, flag |-> [t \in Targets |-> FALSE]]

\* Mutant of _removePending: the last entry is popped without the swap.
_removePendingPopsLast(target) ==
    IF ~isPending[target]
    THEN [list |-> pendingContracts, flag |-> isPending]
    ELSE [list |-> SubSeq(pendingContracts, 1, Len(pendingContracts) - 1),
          flag |-> [isPending EXCEPT ![target] = FALSE]]

\* _removePending(target): the new (pendingContracts, isPending)
_removePending(target) ==
    IF ~isPending[target]
    THEN [list |-> pendingContracts, flag |-> isPending]
    ELSE LET i == IndexOf(pendingContracts, target, 1)
         IN [list |-> IF i = 0 THEN pendingContracts
                      ELSE SwapPop(pendingContracts, i),
             flag |-> [isPending EXCEPT ![target] = FALSE]]

(***************************************************************************)
(* Calls.  `sender` is msg.sender.                                         *)
(***************************************************************************)

\* A failed require: the call reverts, storage is as before, no event stays.
Revert(reason) ==
    /\ result' = reason
    /\ emitted' = <<>>
    /\ UNCHANGED storage
    /\ UNCHANGED now

\* Mutant of CtorLoop: repeated initial reporters are pushed again.
RECURSIVE CtorLoopKeepsRepeats(_, _, _)
CtorLoopKeepsRepeats(initialOracles, i, list) ==
    IF i > Len(initialOracles) THEN list
    ELSE LET o == initialOracles[i]
         IN IF o # 0
            THEN CtorLoopKeepsRepeats(initialOracles, i + 1, Append(list, o))
            ELSE CtorLoopKeepsRepeats(initialOracles, i + 1, list)

\* The loop of the constructor over initialOracles: the list built so far.
RECURSIVE CtorLoop(_, _, _)
CtorLoop(initialOracles, i, list) ==
    IF i > Len(initialOracles) THEN list
    ELSE LET o == initialOracles[i]
         IN IF o # 0 /\ IndexOf(list, o, 1) = 0
            THEN CtorLoop(initialOracles, i + 1, Append(list, o))
            ELSE CtorLoop(initialOracles, i + 1, list)

\* Mutant of constructor: the arguments are stored as given, without the
\* defaults for zero.
constructorNoDefaults(deployer, initialOracles, _min, _quorum) ==
    LET list == CtorLoop(initialOracles, 1, <<>>)
    IN /\ ~(_quorum > 0 /\ ~(_quorum <= 100))
       /\ owner = deployer
       /\ minRequiredSubmissions = _min
       /\ quorumPercent = _quorum
       /\ oracleList = list
       /\ isOracle = [a \in Identities |-> IndexOf(list, a, 1) # 0]
       /\ hasSubmitted = [t \in Targets |-> [a \in Identities |-> FALSE]]
       /\ assessments = [t \in Targets |-> <<>>]
       /\ finalRisks = [t \in Targets |-> ZeroFinalRisk]
       /\ isFinalized = [t \in Targets |-> FALSE]
       /\ pendingContracts = <<>>
       /\ isPending = [t \in Targets |-> FALSE]
       /\ call = [op |-> "constructor", target |-> 0]
       /\ returned = <<>>
       /\ result = "ok"
       /\ emitted = [i \in 1..Len(list) |->
                        [event |-> "OracleNodeRegistered", oracle |-> list[i]]]

\* constructor(initialOracles, _minRequiredSubmissions, _quorumPercent)
constructor(deployer, initialOracles, _min, _quorum) ==
    LET list == CtorLoop(initialOracles, 1, <<>>)
    IN /\ ~(_quorum > 0 /\ ~(_quorum <= 100))
       /\ owner = deployer
       /\ minRequiredSubmissions = (IF _min > 0 THEN _min ELSE 3)
       /\ quorumPercent = (IF _quorum > 0 THEN _quorum ELSE 66)
       /\ oracleList = list
       /\ isOracle = [a \in Identities |-> IndexOf(list, a, 1) # 0]
       /\ hasSubmitted = [t \in Targets |-> [a \in Identities |-> FALSE]]
       /\ assessments = [t \in Targets |-> <<>>]
       /\ finalRisks = [t \in Targets |-> ZeroFinalRisk]
       /\ isFinalized = [t \in Targets |-> FALSE]
       /\ pendingContracts = <<>>
       /\ isPending = [t \in Targets |-> FALSE]
       /\ call = [op |-> "constructor", target |-> 0]
       /\ returned = <<>>
       /\ result = "ok"
       /\ emitted = [i \in 1..Len(list) |->
                        [event |-> "OracleNodeRegistered", oracle |-> list[i]]]

\* Mutant of registerOracle: a reporter registered again starts afresh, its
\* duplicate markers cleared.
registerOracleClearsMarkers(sender, oracle) ==
    /\ call' = [op |-> "registerOracle", target |-> 0]
    /\ returned' = <<>>
    /\ IF sender # owner THEN Revert("Only owner")
       ELSE IF oracle = 0 THEN Revert("zero address")
       ELSE IF isOracle[oracle] THEN Revert("already oracle")
       ELSE /\ isOracle' = [isOracle EXCEPT ![oracle] = TRUE]
            /\ oracleList' = Append(oracleList, oracle)
            /\ hasSubmitted' = [t \in Targets |->
                                  [hasSubmitted[t] EXCEPT ![oracle] = FALSE]]
            /\ emitted' = <<[event |-> "OracleNodeRegistered", oracle |-> oracle]>>
            /\ result' = "ok"
            /\ UNCHANGED <<owner, minRequiredSubmissions, quorumPercent,
                           assessments, finalRisks, isFinalized,
                           pendingContracts, isPending, now>>

registerOracle(sender, oracle) ==
    /\ call' = [op |-> "registerOracle", target |-> 0]
    /\ returned' = <<>>
    /\ IF sender # owner THEN Revert("Only owner")
       ELSE IF oracle = 0 THEN Revert("zero address")
       ELSE IF isOracle[oracle] THEN Revert("already oracle")
       ELSE /\ isOracle' = [isOracle EXCEPT ![oracle] = TRUE]
            /\ oracleList' = Append(oracleList, oracle)
            /\ emitted' = <<[event |-> "OracleNodeRegistered", oracle |-> oracle]>>
            /\ result' = "ok"
            /\ UNCHANGED <<owner, minRequiredSubmissions, quorumPercent,
                           hasSubmitted, assessments, finalRisks, isFinalized,
                           pendingContracts, isPending, now>>

\* Mutant of removeOracle: the assessments of the removed oracle are purged.
removeOraclePurges(sender, oracle) ==
    /\ call' = [op |-> "removeOracle", target |-> 0]
    /\ returned' = <<>>
    /\ IF sender # owner THEN Revert("Only owner")
       ELSE IF ~isOracle[oracle] THEN Revert("not oracle")
       ELSE LET i == IndexOf(oracleList, oracle, 1)
            IN /\ isOracle' = [isOracle EXCEPT ![oracle] = FALSE]
               /\ oracleList' = IF i = 0 THEN oracleList
                                ELSE SwapPop(oracleList, i)
               /\ assessments' =
                     [t \in Targets |->
                         SelectSeq(assessments[t],
                                   LAMBDA a : a.oracle # oracle)]
               /\ emitted' = <<[event |-> "OracleNodeRemoved", oracle |-> oracle]>>
               /\ result' = "ok"
               /\ UNCHANGED <<owner, minRequiredSubmissions, quorumPercent,
                              hasSubmitted, finalRisks, isFinalized,
                              pendingContracts, isPending, now>>

removeOracle(sender, oracle) ==
    /\ call' = [op |-> "removeOracle", target |-> 0]
    /\ returned' = <<>>
    /\ IF sender # owner THEN Revert("Only owner")
       ELSE IF ~isOracle[oracle] THEN Revert("not oracle")
       ELSE LET i == IndexOf(oracleList, oracle, 1)
            IN /\ isOracle' = [isOracle EXCEPT ![oracle] = FALSE]
               /\ oracleList' = IF i = 0 THEN oracleList
                                ELSE SwapPop(oracleList, i)
               /\ emitted' = <<[event |-> "OracleNodeRemoved", oracle |-> oracle]>>
               /\ result' = "ok"
               /\ UNCHANGED <<owner, minRequiredSubmissions, quorumPercent,
                              hasSubmitted, assessments, finalRisks, isFinalized,
                              pendingContracts, isPending, now>>

\* Mutant of setConsensusParams: the minimum is stored before the quorum is
\* checked, and the failure is reported without undoing the write.
setConsensusParamsEarlyWrite(sender, _min, _quorum) ==
    /\ call' = [op |-> "setConsensusParams", target |-> 0]
    /\ returned' = <<>>
    /\ IF sender # owner THEN Revert("Only owner")
       ELSE IF ~(_min >= 1) THEN Revert("min submissions >=1")
       ELSE /\ minRequiredSubmissions' = _min
            /\ quorumPercent' = IF _quorum >= 1 /\ _quorum <= 100
                                THEN _quorum ELSE quorumPercent
            /\ emitted' = <<>>
            /\ result' = IF _quorum >= 1 /\ _quorum <= 100
                         THEN "ok" ELSE "quorum 1..100"
            /\ UNCHANGED <<owner, isOracle, oracleList, hasSubmitted, assessments,
                           finalRisks, isFinalized, pendingContracts, isPending,
                           now>>

\* Mutant of setConsensusParams: the new minimum is applied to the targets
\* already finalized, which are opened again when they fall short of it.
setConsensusParamsRetroactive(sender, _min, _quorum) ==
    /\ call' = [op |-> "setConsensusParams", target |-> 0]
    /\ returned' = <<>>
    /\ IF sender # owner THEN Revert("Only owner")
       ELSE IF ~(_min >= 1) THEN Revert("min submissions >=1")
       ELSE IF ~(_quorum >= 1 /\ _quorum <= 100) THEN Revert("quorum 1..100")
       ELSE /\ minRequiredSubmissions' = _min
            /\ quorumPercent' = _quorum
            /\ isFinalized' = [t \in Targets |->
                                 isFinalized[t] /\ Len(assessments[t]) >= _min]
            /\ emitted' = <<>>
            /\ result' = "ok"
            /\ UNCHANGED <<owner, isOracle, oracleList, hasSubmitted, assessments,
                           finalRisks, pendingContracts, isPending, now>>

setConsensusParams(sender, _min, _quorum) ==
    /\ call' = [op |-> "setConsensusParams", target |-> 0]
    /\ returned' = <<>>
    /\ IF sender # owner THEN Revert("Only owner")
       ELSE IF ~(_min >= 1) THEN Revert("min submissions >=1")
       ELSE IF ~(_quorum >= 1 /\ _quorum <= 100) THEN Revert("quorum 1..100")
       ELSE /\ minRequiredSubmissions' = _min
            /\ quorumPercent' = _quorum
            /\ emitted' = <<>>
            /\ result' = "ok"
            /\ UNCHANGED <<owner, isOracle, oracleList, hasSubmitted, assessments,
                           finalRisks, isFinalized, pendingContracts, isPending,
                           now>>

\* Mutant of requestAssessment: a finalized target is opened again and
\* queued instead of being refused.
requestAssessmentReopens(sender, target) ==
    /\ call' = [op |-> "requestAssessment", target |-> target]
    /\ returned' = <<>>
    /\ IF target = 0 THEN Revert("invalid target")
       ELSE /\ isFinalized' = [isFinalized EXCEPT ![target] = FALSE]
            /\ IF ~isPending[target]
               THEN /\ isPending' = [isPending EXCEPT ![target] = TRUE]
                    /\ pendingContracts' = Append(pendingContracts, target)
                    /\ emitted' = <<[event |-> "TaskRequested", target |-> target,
                                     requester |-> sender]>>
               ELSE /\ UNCHANGED <<isPending, pendingContracts>>
                    /\ emitted' = <<>>
            /\ result' = "ok"
            /\ UNCHANGED <<owner, isOracle, oracleList, minRequiredSubmissions,
                           quorumPercent, hasSubmitted, assessments, finalRisks,
                           now>>

\* Mutant of requestAssessment: the target is queued without looking at
\* isPending.
requestAssessmentAlwaysPush(sender, target) ==
    /\ call' = [op |-> "requestAssessment", target |-> target]
    /\ returned' = <<>>
    /\ IF target = 0 THEN Revert("invalid target")
       ELSE IF isFinalized[target] THEN Revert("already finalized")
       ELSE /\ isPending' = [isPending EXCEPT ![target] = TRUE]
            /\ pendingContracts' = Append(pendingContracts, target)
            /\ emitted' = <<[event |-> "TaskRequested", target |-> target,
                             requester |-> sender]>>
            /\ result' = "ok"
            /\ UNCHANGED <<owner, isOracle, oracleList, minRequiredSubmissions,
                           quorumPercent, hasSubmitted, assessments, finalRisks,
                           isFinalized, now>>

\* Mutant of requestAssessment: the event is emitted outside the `if`.
requestAssessmentAlwaysEmits(sender, target) ==
    /\ call' = [op |-> "requestAssessment", target |-> target]
    /\ returned' = <<>>
    /\ IF target = 0 THEN Revert("invalid target")
       ELSE IF isFinalized[target] THEN Revert("already finalized")
       ELSE /\ IF ~isPending[target]
               THEN /\ isPending' = [isPending EXCEPT ![target] = TRUE]
                    /\ pendingContracts' = Append(pendingContracts, target)
               ELSE UNCHANGED <<isPending, pendingContracts>>
            /\ emitted' = <<[event |-> "TaskRequested", target |-> target,
                             requester |-> sender]>>
            /\ result' = "ok"
            /\ UNCHANGED <<owner, isOracle, oracleList, minRequiredSubmissions,
                           quorumPercent, hasSubmitted, assessments, finalRisks,
                           isFinalized, now>>

requestAssessment(sender, target) ==
    /\ call' = [op |-> "requestAssessment", target |-> target]
    /\ returned' = <<>>
    /\ IF target = 0 THEN Revert("invalid target")
       ELSE IF isFinalized[target] THEN Revert("already finalized")
       ELSE /\ IF ~isPending[target]
               THEN /\ isPending' = [isPending EXCEPT ![target] = TRUE]
                    /\ pendingContracts' = Append(pendingContracts, target)
                    /\ emitted' = <<[event |-> "TaskRequested", target |-> target,
                                     requester |-> sender]>>
               ELSE /\ UNCHANGED <<isPending, pendingContracts>>
                    /\ emitted' = <<>>
            /\ result' = "ok"
            /\ UNCHANGED <<owner, isOracle, oracleList, minRequiredSubmissions,
                           quorumPercent, hasSubmitted, assessments, finalRisks,
                           isFinalized, now>>

\* getPendingTasks()
getPendingTasks == pendingContracts

\* Mutant of Verdict: the mean rounded to the nearest integer.
VerdictRounded(subs) ==
    LET n == Len(subs)
        t == Tally(subs)
        w == Winner(t.catCount)
    IN [aggregatedScore |-> ((2 * t.totalScore + n) \div (2 * n)) % 256,
        category |-> w.winningCat,
        ipfsCid |-> _pickCid(subs, w.winningCat),
        timestamp |-> now,
        numSubmittingOracles |-> n]

\* Mutant of Verdict: the category is that of the aggregated score.
VerdictCategoryOfMean(subs) ==
    LET n == Len(subs)
        t == Tally(subs)
        w == Winner(t.catCount)
    IN [aggregatedScore |-> (t.totalScore \div n) % 256,
        category |-> _scoreToCategory((t.totalScore \div n) % 256),
        ipfsCid |-> _pickCid(subs, w.winningCat),
        timestamp |-> now,
        numSubmittingOracles |-> n]

\* Mutant of Verdict: the timestamp of the record is left unset.
VerdictNoTime(subs) ==
    LET n == Len(subs)
        t == Tally(subs)
        w == Winner(t.catCount)
    IN [aggregatedScore |-> (t.totalScore \div n) % 256,
        category |-> w.winningCat,
        ipfsCid |-> _pickCid(subs, w.winningCat),
        timestamp |-> 0,
        numSubmittingOracles |-> n]

\* The verdict _tryFinalize computes over subs once the quorum check passed.
Verdict(subs) ==
    LET n == Len(subs)
        t == Tally(subs)
        w == Winner(t.catCount)
    IN [aggregatedScore |-> (t.totalScore \div n) % 256,
        category |-> w.winningCat,
        ipfsCid |-> _pickCid(subs, w.winningCat),
        timestamp |-> now,
        numSubmittingOracles |-> n]

\* Mutant of QuorumReached: a strict comparison.
QuorumReachedStrict(subs) ==
    LET n == Len(subs)
    IN /\ ~(n < minRequiredSubmissions)
       /\ Winner(Tally(subs).catCount).winningCount * 100 > quorumPercent * n

\* The condition under which _tryFinalize seals: it returns early when
\* n < minRequiredSubmissions and otherwise compares
\* winningCount * 100 >= quorumPercent * n.
QuorumReached(subs) ==
    LET n == Len(subs)
    IN /\ ~(n < minRequiredSubmissions)
       /\ Winner(Tally(subs).catCount).winningCount * 100 >= quorumPercent * n

\* Mutant of _tryFinalize: the alert is emitted ahead of the events already
\* in the log.
_tryFinalizeAlertFirst(target, subs, log) ==
    IF QuorumReached(subs)
    THEN LET v == Verdict(subs)
             p == _removePending(target)
         IN /\ finalRisks' = [finalRisks EXCEPT ![target] = v]
            /\ isFinalized' = [isFinalized EXCEPT ![target] = TRUE]
            /\ pendingContracts' = p.list
            /\ isPending' = p.flag
            /\ emitted' =
                  <<[event |-> "RiskAlertIssued", target |-> target,
                     aggregatedScore |-> v.aggregatedScore,
                     category |-> v.category, ipfsCid |-> v.ipfsCid,
                     timestamp |-> now,
                     numSubmissions |-> v.numSubmittingOracles]>> \o log
    ELSE /\ UNCHANGED <<finalRisks, isFinalized, pendingContracts, isPending>>
         /\ emitted' = log

\* Mutant of _tryFinalize: the submissions of reporters removed since are
\* left out of the tally.
_tryFinalizeActiveOnly(target, subs, log) ==
    LET active == SelectSeq(subs, LAMBDA a : isOracle[a.oracle])
    IN IF QuorumReached(active)
       THEN LET v == Verdict(active)
                p == _removePending(target)
            IN /\ finalRisks' = [finalRisks EXCEPT ![target] = v]
               /\ isFinalized' = [isFinalized EXCEPT ![target] = TRUE]
               /\ pendingContracts' = p.list
               /\ isPending' = p.flag
               /\ emitted' = Append(log,
                      [event |-> "RiskAlertIssued", target |-> target,
                       aggregatedScore |-> v.aggregatedScore,
                       category |-> v.category, ipfsCid |-> v.ipfsCid,
                       timestamp |-> now,
                       numSubmissions |-> v.numSubmittingOracles])
       ELSE /\ UNCHANGED <<finalRisks, isFinalized, pendingContracts, isPending>>
            /\ emitted' = log

\* Mutant of _tryFinalize: the target stays in the pending queue.
_tryFinalizeKeepsPending(target, subs, log) ==
    IF QuorumReached(subs)
    THEN LET v == Verdict(subs)
         IN /\ finalRisks' = [finalRisks EXCEPT ![target] = v]
            /\ isFinalized' = [isFinalized EXCEPT ![target] = TRUE]
            /\ UNCHANGED <<pendingContracts, isPending>>
            /\ emitted' = Append(log,
                   [event |-> "RiskAlertIssued", target |-> target,
                    aggregatedScore |-> v.aggregatedScore, category |-> v.category,
                    ipfsCid |-> v.ipfsCid, timestamp |-> now,
                    numSubmissions |-> v.numSubmittingOracles])
    ELSE /\ UNCHANGED <<finalRisks, isFinalized, pendingContracts, isPending>>
         /\ emitted' = log

\* Mutant of _tryFinalize: only a target that was requested is finalized.
_tryFinalizeIfPending(target, subs, log) ==
    IF QuorumReached(subs) /\ isPending[target]
    THEN LET v == Verdict(subs)
             p == _removePending(target)
         IN /\ finalRisks' = [finalRisks EXCEPT ![target] = v]
            /\ isFinalized' = [isFinalized EXCEPT ![target] = TRUE]
            /\ pendingContracts' = p.list
            /\ isPending' = p.flag
            /\ emitted' = Append(log,
                   [event |-> "RiskAlertIssued", target |-> target,
                    aggregatedScore |-> v.aggregatedScore, category |-> v.category,
                    ipfsCid |-> v.ipfsCid, timestamp |-> now,
                    numSubmissions |-> v.numSubmittingOracles])
    ELSE /\ UNCHANGED <<finalRisks, isFinalized, pendingContracts, isPending>>
         /\ emitted' = log

\* Mutant of _tryFinalize: the tally reads the submissions as they were
\* before the one just stored.
_tryFinalizeStale(target, subs, log) ==
    LET old == SubSeq(subs, 1, Len(subs) - 1)
    IN IF QuorumReached(old)
       THEN LET v == Verdict(old)
                p == _removePending(target)
            IN /\ finalRisks' = [finalRisks EXCEPT ![target] = v]
               /\ isFinalized' = [isFinalized EXCEPT ![target] = TRUE]
               /\ pendingContracts' = p.list
               /\ isPending' = p.flag
               /\ emitted' = Append(log,
                      [event |-> "RiskAlertIssued", target |-> target,
                       aggregatedScore |-> v.aggregatedScore,
                       category |-> v.category, ipfsCid |-> v.ipfsCid,
                       timestamp |-> now,
                       numSubmissions |-> v.numSubmittingOracles])
       ELSE /\ UNCHANGED <<finalRisks, isFinalized, pendingContracts, isPending>>
            /\ emitted' = log

\* _tryFinalize(target), run on the submissions `subs` just stored for the
\* target after the events in `log` were emitted.
_tryFinalize(target, subs, log) ==
    IF QuorumReached(subs)
    THEN LET v == Verdict(subs)
             p == _removePending(target)
         IN /\ finalRisks' = [finalRisks EXCEPT ![target] = v]
            /\ isFinalized' = [isFinalized EXCEPT ![target] = TRUE]
            /\ pendingContracts' = p.list
            /\ isPending' = p.flag
            /\ emitted' = Append(log,
                   [event |-> "RiskAlertIssued", target |-> target,
                    aggregatedScore |-> v.aggregatedScore, category |-> v.category,
                    ipfsCid |-> v.ipfsCid, timestamp |-> now,
                    numSubmissions |-> v.numSubmittingOracles])
    ELSE /\ UNCHANGED <<finalRisks, isFinalized, pendingContracts, isPending>>
         /\ emitted' = log

\* Mutants of submitChecks: a check left out or made too early.
submitChecksNoFinalized(sender, target, score) ==
    IF ~isOracle[sender] THEN "Only whitelisted oracle"
    ELSE IF target = 0 THEN "invalid target"
    ELSE IF ~(score <= 100) THEN "score 0..100"
    ELSE IF hasSubmitted[target][sender] THEN "already submitted"
    ELSE "ok"

submitChecksFinalizedFirst(sender, target, score) ==
    IF isFinalized[target] THEN "finalized"
    ELSE IF ~isOracle[sender] THEN "Only whitelisted oracle"
    ELSE IF target = 0 THEN "invalid target"
    ELSE IF ~(score <= 100) THEN "score 0..100"
    ELSE IF hasSubmitted[target][sender] THEN "already submitted"
    ELSE "ok"

submitChecksNoDuplicate(sender, target, score) ==
    IF ~isOracle[sender] THEN "Only whitelisted oracle"
    ELSE IF target = 0 THEN "invalid target"
    ELSE IF ~(score <= 100) THEN "score 0..100"
    ELSE IF isFinalized[target] THEN "finalized"
    ELSE "ok"

submitChecksScoreOffByOne(sender, target, score) ==
    IF ~isOracle[sender] THEN "Only whitelisted oracle"
    ELSE IF target = 0 THEN "invalid target"
    ELSE IF ~(score <= 101) THEN "score 0..100"
    ELSE IF isFinalized[target] THEN "finalized"
    ELSE IF hasSubmitted[target][sender] THEN "already submitted"
    ELSE "ok"

submitChecksNoScore(sender, target, score) ==
    IF ~isOracle[sender] THEN "Only whitelisted oracle"
    ELSE IF target = 0 THEN "invalid target"
    ELSE IF isFinalized[target] THEN "finalized"
    ELSE IF hasSubmitted[target][sender] THEN "already submitted"
    ELSE "ok"

submitChecksNoOracle(sender, target, score) ==
    IF target = 0 THEN "invalid target"
    ELSE IF ~(score <= 100) THEN "score 0..100"
    ELSE IF isFinalized[target] THEN "finalized"
    ELSE IF hasSubmitted[target][sender] THEN "already submitted"
    ELSE "ok"

\* The modifier onlyOracle and the requires of submitAssessment, in the
\* order the code evaluates them: the reason of the first that fails.
submitChecks(sender, target, score) ==
    IF ~isOracle[sender] THEN "Only whitelisted oracle"
    ELSE IF target = 0 THEN "invalid target"
    ELSE IF ~(score <= 100) THEN "score 0..100"
    ELSE IF isFinalized[target] THEN "finalized"
    ELSE IF hasSubmitted[target][sender] THEN "already submitted"
    ELSE "ok"

\* Mutant of submitAssessment: the evaluation starts one submission late.
submitAssessmentLateTrigger(sender, target, score, ipfsCid) ==
    /\ call' = [op |-> "submitAssessment", target |-> target]
    /\ returned' = <<>>
    /\ IF submitChecks(sender, target, score) # "ok"
       THEN Revert(submitChecks(sender, target, score))
       ELSE LET subs == Append(assessments[target],
                               [oracle |-> sender, score |-> score,
                                ipfsCid |-> ipfsCid, timestamp |-> now])
                log == <<[event |-> "AssessmentSubmitted", target |-> target,
                          oracle |-> sender, score |-> score,
                          ipfsCid |-> ipfsCid]>>
            IN /\ hasSubmitted' = [hasSubmitted EXCEPT ![target][sender] = TRUE]
               /\ assessments' = [assessments EXCEPT ![target] = subs]
               /\ IF Len(subs) > minRequiredSubmissions
                  THEN _tryFinalize(target, subs, log)
                  ELSE /\ UNCHANGED <<finalRisks, isFinalized, pendingContracts,
                                      isPending>>
                       /\ emitted' = log
               /\ result' = "ok"
               /\ UNCHANGED <<owner, isOracle, oracleList,
                              minRequiredSubmissions, quorumPercent, now>>

submitAssessment(sender, target, score, ipfsCid) ==
    /\ call' = [op |-> "submitAssessment", target |-> target]
    /\ returned' = <<>>
    /\ IF submitChecks(sender, target, score) # "ok"
       THEN Revert(submitChecks(sender, target, score))
       ELSE LET subs == Append(assessments[target],
                               [oracle |-> sender, score |-> score,
                                ipfsCid |-> ipfsCid, timestamp |-> now])
                log == <<[event |-> "AssessmentSubmitted", target |-> target,
                          oracle |-> sender, score |-> score,
                          ipfsCid |-> ipfsCid]>>
            IN /\ hasSubmitted' = [hasSubmitted EXCEPT ![target][sender] = TRUE]
               /\ assessments' = [assessments EXCEPT ![target] = subs]
               /\ IF Len(subs) >= minRequiredSubmissions
                  THEN _tryFinalize(target, subs, log)
                  ELSE /\ UNCHANGED <<finalRisks, isFinalized, pendingContracts,
                                      isPending>>
                       /\ emitted' = log
               /\ result' = "ok"
               /\ UNCHANGED <<owner, isOracle, oracleList,
                              minRequiredSubmissions, quorumPercent, now>>

\* Mutant of ClearMarkers: the markers are left as they are.
ClearMarkersNone(subs, i, marks) == marks

\* The loop of adminResetTarget: hasSubmitted[target] after clearing the
\* marker of the oracle of every stored assessment from index i on.
RECURSIVE ClearMarkers(_, _, _)
ClearMarkers(subs, i, marks) ==
    IF i > Len(subs) THEN marks
    ELSE ClearMarkers(subs, i + 1, [marks EXCEPT ![subs[i].oracle] = FALSE])

\* Mutant of adminResetTarget: the markers of every target are cleared.
adminResetTargetClearsAll(sender, target) ==
    /\ call' = [op |-> "adminResetTarget", target |-> target]
    /\ returned' = <<>>
    /\ IF sender # owner THEN Revert("Only owner")
       ELSE LET p == _removePending(target)
            IN /\ hasSubmitted' = [t \in Targets |->
                                     [a \in Identities |-> FALSE]]
               /\ assessments' = [assessments EXCEPT ![target] = <<>>]
               /\ finalRisks' = [finalRisks EXCEPT ![target] = ZeroFinalRisk]
               /\ isFinalized' = [isFinalized EXCEPT ![target] = FALSE]
               /\ pendingContracts' = p.list
               /\ isPending' = p.flag
               /\ emitted' = <<>>
               /\ result' = "ok"
               /\ UNCHANGED <<owner, isOracle, oracleList,
                              minRequiredSubmissions, quorumPercent, now>>

\* Mutant of adminResetTarget: the modifier onlyOwner is missing.
adminResetTargetAnyone(sender, target) ==
    /\ call' = [op |-> "adminResetTarget", target |-> target]
    /\ returned' = <<>>
    /\ LET p == _removePending(target)
       IN /\ hasSubmitted' = [hasSubmitted EXCEPT ![target] =
                                ClearMarkers(assessments[target], 1, @)]
          /\ assessments' = [assessments EXCEPT ![target] = <<>>]
          /\ finalRisks' = [finalRisks EXCEPT ![target] = ZeroFinalRisk]
          /\ isFinalized' = [isFinalized EXCEPT ![target] = FALSE]
          /\ pendingContracts' = p.list
          /\ isPending' = p.flag
          /\ emitted' = <<>>
          /\ result' = "ok"
          /\ UNCHANGED <<owner, isOracle, oracleList,
                         minRequiredSubmissions, quorumPercent, now>>

adminResetTarget(sender, target) ==
    /\ call' = [op |-> "adminResetTarget", target |-> target]
    /\ returned' = <<>>
    /\ IF sender # owner THEN Revert("Only owner")
       ELSE LET p == _removePending(target)
            IN /\ hasSubmitted' = [hasSubmitted EXCEPT ![target] =
                                     ClearMarkers(assessments[target], 1, @)]
               /\ assessments' = [assessments EXCEPT ![target] = <<>>]
               /\ finalRisks' = [finalRisks EXCEPT ![target] = ZeroFinalRisk]
               /\ isFinalized' = [isFinalized EXCEPT ![target] = FALSE]
               /\ pendingContracts' = p.list
               /\ isPending' = p.flag
               /\ emitted' = <<>>
               /\ result' = "ok"
               /\ UNCHANGED <<owner, isOracle, oracleList,
                              minRequiredSubmissions, quorumPercent, now>>

\* Mutant of transferOwnership: the null address is accepted.
transferOwnershipAcceptsZero(sender, newOwner) ==
    /\ call' = [op |-> "transferOwnership", target |-> 0]
    /\ returned' = <<>>
    /\ IF sender # owner THEN Revert("Only owner")
       ELSE /\ owner' = newOwner
            /\ emitted' = <<>>
            /\ result' = "ok"
            /\ UNCHANGED <<isOracle, oracleList, minRequiredSubmissions,
                           quorumPercent, hasSubmitted, assessments, finalRisks,
                           isFinalized, pendingContracts, isPending, now>>

transferOwnership(sender, newOwner) ==
    /\ call' = [op |-> "transferOwnership", target |-> 0]
    /\ returned' = <<>>
    /\ IF sender # owner THEN Revert("Only owner")
       ELSE IF newOwner = 0 THEN Revert("zero")
       ELSE /\ owner' = newOwner
            /\ emitted' = <<>>
            /\ result' = "ok"
            /\ UNCHANGED <<isOracle, oracleList, minRequiredSubmissions,
                           quorumPercent, hasSubmitted, assessments, finalRisks,
                           isFinalized, pendingContracts, isPending, now>>

\* View functions.
getAssessmentCount(target) == Len(assessments[target])

\* Mutant of getAssessment: the bound check is off by one.
getAssessmentStrictBound(target, index) ==
    IF ~(index + 1 < Len(assessments[target]))
    THEN [result |-> "index OOB", returned |-> <<>>]
    ELSE LET a == assessments[target][index + 1]
         IN [result |-> "ok",
             returned |-> <<a.oracle, a.score, a.ipfsCid, a.timestamp>>]

\* getAssessment(target, index): the revert reason of the failed require, or
\* "ok" and the four values returned.
getAssessment(target, index) ==
    IF ~(index < Len(assessments[target]))
    THEN [result |-> "index OOB", returned |-> <<>>]
    ELSE LET a == assessments[target][index + 1]
         IN [result |-> "ok",
             returned |-> <<a.oracle, a.score, a.ipfsCid, a.timestamp>>]

\* Mutant of getFinalRisk: the stored record is returned without the guard.
getFinalRiskNoGuard(target) ==
    LET r == finalRisks[target]
    IN <<r.aggregatedScore, r.category, r.ipfsCid, r.timestamp,
         r.numSubmittingOracles, TRUE>>

getFinalRisk(target) ==
    LET r == finalRisks[target]
    IN IF ~isFinalized[target] THEN <<0, 0, "", 0, 0, FALSE>>
       ELSE <<r.aggregatedScore, r.category, r.ipfsCid, r.timestamp,
              r.numSubmittingOracles, TRUE>>

\* External calls of the view functions: the storage is as before, the
\* values returned are in `returned`.
getAssessmentCountCall(target) ==
    /\ call' = [op |-> "getAssessmentCount", target |-> target]
    /\ result' = "ok"
    /\ returned' = <<getAssessmentCount(target)>>
    /\ emitted' = <<>>
    /\ UNCHANGED <<storage, now>>

getAssessmentCall(target, index) ==
    /\ call' = [op |-> "getAssessment", target |-> target]
    /\ result' = getAssessment(target, index).result
    /\ returned' = getAssessment(target, index).returned
    /\ emitted' = <<>>
    /\ UNCHANGED <<storage, now>>

getFinalRiskCall(target) ==
    /\ call' = [op |-> "getFinalRisk", target |-> target]
    /\ result' = "ok"
    /\ returned' = getFinalRisk(target)
    /\ emitted' = <<>>
    /\ UNCHANGED <<storage, now>>

getPendingTasksCall ==
    /\ call' = [op |-> "getPendingTasks", target |-> 0]
    /\ result' = "ok"
    /\ returned' = getPendingTasks
    /\ emitted' = <<>>
    /\ UNCHANGED <<storage, now>>

\* A later block: block.timestamp grows.
mineBlock ==
    /\ now < MaxTime
    /\ now' = now + 1
    /\ UNCHANGED <<storage, call, result, emitted, returned>>

(***************************************************************************)
(* The version of the contract without the pending queue (part_011).  Its  *)
(* functions carry the prefix Plain_, its storage is the storage of the    *)
(* queue version less pendingContracts and isPending, and each function is *)
(* the relation between that storage before and after the call, with the   *)
(* call, its outcome and its events.                                       *)
(***************************************************************************)
Plain_storage == <<owner, isOracle, oracleList, minRequiredSubmissions,
                   quorumPercent, hasSubmitted, assessments, finalRisks,
                   isFinalized>>

Plain_Revert(reason) ==
    /\ result' = reason
    /\ emitted' = <<>>
    /\ UNCHANGED Plain_storage

Plain_constructor(deployer, initialOracles, _min, _quorum) ==
    LET list == CtorLoop(initialOracles, 1, <<>>)
    IN /\ ~(_quorum > 0 /\ ~(_quorum <= 100))
       /\ owner = deployer
       /\ minRequiredSubmissions = (IF _min > 0 THEN _min ELSE 3)
       /\ quorumPercent = (IF _quorum > 0 THEN _quorum ELSE 66)
       /\ oracleList = list
       /\ isOracle = [a \in Identities |-> IndexOf(list, a, 1) # 0]
       /\ hasSubmitted = [t \in Targets |-> [a \in Identities |-> FALSE]]
       /\ assessments = [t \in Targets |-> <<>>]
       /\ finalRisks = [t \in Targets |-> ZeroFinalRisk]
       /\ isFinalized = [t \in Targets |-> FALSE]
       /\ call = [op |-> "constructor", target |-> 0]
       /\ result = "ok"
       /\ emitted = [i \in 1..Len(list) |->
                        [event |-> "OracleNodeRegistered", oracle |-> list[i]]]

Plain_registerOracle(sender, oracle) ==
    /\ call' = [op |-> "registerOracle", target |-> 0]
    /\ IF sender # owner THEN Plain_Revert("Only owner")
       ELSE IF oracle = 0 THEN Plain_Revert("zero address")
       ELSE IF isOracle[oracle] THEN Plain_Revert("already oracle")
       ELSE /\ isOracle' = [isOracle EXCEPT ![oracle] = TRUE]
            /\ oracleList' = Append(oracleList, oracle)
            /\ emitted' = <<[event |-> "OracleNodeRegistered", oracle |-> oracle]>>
            /\ result' = "ok"
            /\ UNCHANGED <<owner, minRequiredSubmissions, quorumPercent,
                           hasSubmitted, assessments, finalRisks, isFinalized>>

Plain_removeOracle(sender, oracle) ==
    /\ call' = [op |-> "removeOracle", target |-> 0]
    /\ IF sender # owner THEN Plain_Revert("Only owner")
       ELSE IF ~isOracle[oracle] THEN Plain_Revert("not oracle")
       ELSE LET i == IndexOf(oracleList, oracle, 1)
            IN /\ isOracle' = [isOracle EXCEPT ![oracle] = FALSE]
               /\ oracleList' = IF i = 0 THEN oracleList
                                ELSE SwapPop(oracleList, i)
               /\ emitted' = <<[event |-> "OracleNodeRemoved", oracle |-> oracle]>>
               /\ result' = "ok"
               /\ UNCHANGED <<owner, minRequiredSubmissions, quorumPercent,
                              hasSubmitted, assessments, finalRisks, isFinalized>>

Plain_setConsensusParams(sender, _min, _quorum) ==
    /\ call' = [op |-> "setConsensusParams", target |-> 0]
    /\ IF sender # owner THEN Plain_Revert("Only owner")
       ELSE IF ~(_min >= 1) THEN Plain_Revert("min submissions >=1")
       ELSE IF ~(_quorum >= 1 /\ _quorum <= 100)
            THEN Plain_Revert("quorum 1..100")
       ELSE /\ minRequiredSubmissions' = _min
            /\ quorumPercent' = _quorum
            /\ emitted' = <<>>
            /\ result' = "ok"
            /\ UNCHANGED <<owner, isOracle, oracleList, hasSubmitted, assessments,
                           finalRisks, isFinalized>>

\* _pickCidForWinningCategory(subs, winningCat): the loop is that of _pickCid.
_pickCidForWinningCategory(subs, winningCat) ==
    LET r == PickLoop(subs, 1, "", winningCat)
    IN IF r.firstMatch # "" THEN r.firstMatch
       ELSE IF r.fallbackCid # "" THEN r.fallbackCid
       ELSE ""

Plain__tryFinalize(target, subs, log) ==
    LET n == Len(subs)
        t == Tally(subs)
        w == Winner(t.catCount)
    IN IF n < minRequiredSubmissions
       THEN /\ UNCHANGED <<finalRisks, isFinalized>>
            /\ emitted' = log
       ELSE IF w.winningCount * 100 >= quorumPercent * n
       THEN LET avgScore == (t.totalScore \div n) % 256
                chosenCid == _pickCidForWinningCategory(subs, w.winningCat)
            IN /\ finalRisks' =
                     [finalRisks EXCEPT ![target] =
                         [aggregatedScore |-> avgScore,
                          category |-> w.winningCat, ipfsCid |-> chosenCid,
                          timestamp |-> now, numSubmittingOracles |-> n]]
               /\ isFinalized' = [isFinalized EXCEPT ![target] = TRUE]
               /\ emitted' = Append(log,
                      [event |-> "RiskAlertIssued", target |-> target,
                       aggregatedScore |-> avgScore, category |-> w.winningCat,
                       ipfsCid |-> chosenCid, timestamp |-> now,
                       numSubmissions |-> n])
       ELSE /\ UNCHANGED <<finalRisks, isFinalized>>
            /\ emitted' = log

Plain_submitAssessment(sender, target, score, ipfsCid) ==
    /\ call' = [op |-> "submitAssessment", target |-> target]
    /\ IF ~isOracle[sender] THEN Plain_Revert("Only whitelisted oracle")
       ELSE IF target = 0 THEN Plain_Revert("invalid target")
       ELSE IF ~(score <= 100) THEN Plain_Revert("score 0..100")
       ELSE IF isFinalized[target] THEN Plain_Revert("finalized")
       ELSE IF hasSubmitted[target][sender] THEN Plain_Revert("already submitted")
       ELSE LET subs == Append(assessments[target],
                               [oracle |-> sender, score |-> score,
                                ipfsCid |-> ipfsCid, timestamp |-> now])
                log == <<[event |-> "AssessmentSubmitted", target |-> target,
                          oracle |-> sender, score |-> score,
                          ipfsCid |-> ipfsCid]>>
            IN /\ hasSubmitted' = [hasSubmitted EXCEPT ![target][sender] = TRUE]
               /\ assessments' = [assessments EXCEPT ![target] = subs]
               /\ IF Len(subs) >= minRequiredSubmissions
                  THEN Plain__tryFinalize(target, subs, log)
                  ELSE /\ UNCHANGED <<finalRisks, isFinalized>>
                       /\ emitted' = log
               /\ result' = "ok"
               /\ UNCHANGED <<owner, isOracle, oracleList,
                              minRequiredSubmissions, quorumPercent>>

Plain_adminResetTarget(sender, target) ==
    /\ call' = [op |-> "adminResetTarget", target |-> target]
    /\ IF sender # owner THEN Plain_Revert("Only owner")
       ELSE /\ hasSubmitted' = [hasSubmitted EXCEPT ![target] =
                                  ClearMarkers(assessments[target], 1, @)]
            /\ assessments' = [assessments EXCEPT ![target] = <<>>]
            /\ finalRisks' = [finalRisks EXCEPT ![target] = ZeroFinalRisk]
            /\ isFinalized' = [isFinalized EXCEPT ![target] = FALSE]
            /\ emitted' = <<>>
            /\ result' = "ok"
            /\ UNCHANGED <<owner, isOracle, oracleList,
                           minRequiredSubmissions, quorumPercent>>

Plain_transferOwnership(sender, newOwner) ==
    /\ call' = [op |-> "transferOwnership", target |-> 0]
    /\ IF sender # owner THEN Plain_Revert("Only owner")
       ELSE IF newOwner = 0 THEN Plain_Revert("zero")
       ELSE /\ owner' = newOwner
            /\ emitted' = <<>>
            /\ result' = "ok"
            /\ UNCHANGED <<isOracle, oracleList, minRequiredSubmissions,
                           quorumPercent, hasSubmitted, assessments, finalRisks,
                           isFinalized>>

(***************************************************************************)
(* The lifecycle scenario (Spec): identity 1 deploys with the reporters    *)
(* 1, 2, 3 registered and the parameters of the test suite (3, 66).  Every *)
(* operation of the contract is called: reporter 3 is removed and          *)
(* registered again, the owner and one other identity call the owner's     *)
(* functions, ownership moves between 1 and 2, every identity submits for  *)
(* target 101 (or the zero address) and requests or resets every target.   *)
(***************************************************************************)
Senders == 1..NumIds
Admins == {owner, 3}
LifecycleScores == {10, 85, 101}
LifecycleCids == {"cidA"}
LifecycleParams == {<<3, 66>>, <<2, 50>>, <<0, 66>>, <<2, 101>>}

Init ==
    /\ constructor(1, <<1, 2, 3>>, 3, 66)
    /\ now = 1

Next ==
    \/ \E s \in Admins, o \in {0, 3} : registerOracle(s, o)
    \/ \E s \in Admins : removeOracle(s, 3)
    \/ \E s \in Admins, p \in LifecycleParams : setConsensusParams(s, p[1], p[2])
    \/ \E s \in Senders, t \in Targets : requestAssessment(s, t)
    \/ \E s \in Senders, t \in {0, 101}, sc \in LifecycleScores,
          cid \in LifecycleCids : submitAssessment(s, t, sc, cid)
    \/ \E s \in Admins, t \in Targets : adminResetTarget(s, t)
    \/ \E s \in Admins, n \in {0, 1, 2} : transferOwnership(s, n)

Spec == Init /\ [][Next]_vars

(***************************************************************************)
(* The consensus scenario (SpecConsensus): the same deployment; the three  *)
(* reporters submit every combination of scores and evidence pointers for  *)
(* target 101 while the owner switches the consensus parameters.           *)
(***************************************************************************)
Scores == {10, 50, 75, 85}
Cids == {"", "cidA", "cidB"}
ParamChoices == {<<3, 66>>, <<2, 50>>, <<1, 100>>}

NextConsensus ==
    \/ \E s \in Senders, sc \in Scores, cid \in Cids :
           submitAssessment(s, 101, sc, cid)
    \/ \E p \in ParamChoices : setConsensusParams(owner, p[1], p[2])

SpecConsensus == Init /\ [][NextConsensus]_vars

(***************************************************************************)
(* The deployment scenario (SpecDeploy): scripts/deploy.js deploys with    *)
(* the deployer as the only reporter, minRequiredSubmissions = 1 and       *)
(* quorumPercent = 1; the reporter submits every score 0..101 for target   *)
(* 101, the owner resets the target, and blocks are mined in between.      *)
(***************************************************************************)
InitDeploy ==
    /\ constructor(1, <<1>>, 1, 1)
    /\ now = 1

NextDeploy ==
    \/ \E sc \in 0..101 : submitAssessment(1, 101, sc, "")
    \/ adminResetTarget(owner, 101)
    \/ mineBlock

SpecDeploy == InitDeploy /\ [][NextDeploy]_vars

(***************************************************************************)
(* The reader scenario (SpecReads): the deployment of the test suite; the  *)
(* reporters submit for target 101, any target is requested, the owner     *)
(* calls each of its functions, and after every step a reader may call     *)
(* each view function, for any target and for every index up to one past   *)
(* the largest possible count.                                             *)
(***************************************************************************)
ReadScores == {10, 85}
ReadIndices == 0..(NumIds + 1)

NextReads ==
    \/ \E s \in Senders, sc \in ReadScores : submitAssessment(s, 101, sc, "cidA")
    \/ \E t \in Targets : requestAssessment(1, t)
    \/ \E t \in {101, 102} : adminResetTarget(owner, t)
    \/ registerOracle(owner, 3)
    \/ removeOracle(owner, 3)
    \/ setConsensusParams(owner, 2, 50)
    \/ transferOwnership(owner, 2)
    \/ \E t \in Targets : getAssessmentCountCall(t)
    \/ \E t \in Targets, i \in ReadIndices : getAssessmentCall(t, i)
    \/ \E t \in Targets : getFinalRiskCall(t)
    \/ getPendingTasksCall

SpecReads == Init /\ [][NextReads]_vars

(***************************************************************************)
(* The timeline scenario (SpecTimeline): the same deployment; the          *)
(* reporters submit for target 101 in successive blocks, with or without   *)
(* evidence, the owner resets it, and a reader asks for the count, for     *)
(* each stored assessment and for the final risk.                          *)
(***************************************************************************)
TimelineInputs == {<<10, "">>, <<85, "cidA">>}

NextTimeline ==
    \/ \E s \in Senders, inp \in TimelineInputs :
           submitAssessment(s, 101, inp[1], inp[2])
    \/ adminResetTarget(owner, 101)
    \/ mineBlock
    \/ \E t \in Targets : getAssessmentCountCall(t)
    \/ \E t \in Targets, i \in ReadIndices : getAssessmentCall(t, i)
    \/ \E t \in Targets : getFinalRiskCall(t)

SpecTimeline == Init /\ [][NextTimeline]_vars

(***************************************************************************)
(* The queue scenario (SpecQueue): a deployment with the reporters 1 and 2 *)
(* and the parameters (2, 50), under which the second submission for a     *)
(* target always finalizes it.  Identities 1 and 3 request every target,   *)
(* the reporters submit for every target, the owner resets every target.   *)
(***************************************************************************)
InitQueue ==
    /\ constructor(1, <<1, 2>>, 2, 50)
    /\ now = 1

NextQueue ==
    \/ \E s \in {1, 3}, t \in Targets : requestAssessment(s, t)
    \/ \E s \in {1, 2}, t \in Targets : submitAssessment(s, t, 85, "")
    \/ \E t \in Targets : adminResetTarget(owner, t)

SpecQueue == InitQueue /\ [][NextQueue]_vars

(***************************************************************************)
(* The ownership scenario (SpecAdmin): the same deployment; identities 1   *)
(* and 2 call every owner function while ownership moves between them,     *)
(* reporter 2 is removed and registered again, identity 3 is never         *)
(* registered, and every identity submits for target 101 or the zero       *)
(* address, with scores in and out of range.                               *)
(***************************************************************************)
Owners == {1, 2}
AdminParams == {<<2, 50>>, <<1, 100>>, <<0, 50>>, <<1, 0>>}

NextAdmin ==
    \/ \E s \in Owners, o \in {0, 2} : registerOracle(s, o)
    \/ \E s \in Owners : removeOracle(s, 2)
    \/ \E s \in Owners, p \in AdminParams : setConsensusParams(s, p[1], p[2])
    \/ \E s \in Owners, t \in Targets : adminResetTarget(s, t)
    \/ \E s \in Owners, n \in {0, 1, 2} : transferOwnership(s, n)
    \/ \E s \in Senders, t \in {0, 101}, sc \in LifecycleScores,
          cid \in LifecycleCids : submitAssessment(s, t, sc, cid)

SpecAdmin == InitQueue /\ [][NextAdmin]_vars

(***************************************************************************)
(* The parameter scenario (SpecParams): the contract is deployed with the  *)
(* reporters 1, 2 and 3 and any accepted combination of constructor        *)
(* arguments (zero, in range, above 100: uint8 ends at 255); identities 1  *)
(* and 2 set every combination of parameters, every identity submits for   *)
(* target 101, and identity 3 requests targets 101 and 102.  No target is  *)
(* reset.                                                                  *)
(***************************************************************************)
CtorMins == {0, 1, 3}
CtorQuorums == {0, 1, 66, 100, 101, 255}
ParamMins == {0, 1, 2}
ParamQuorums == {0, 1, 50, 100, 101}

InitParams ==
    /\ \E m \in CtorMins, q \in CtorQuorums : constructor(1, <<1, 2, 3>>, m, q)
    /\ now = 1

NextParams ==
    \/ \E s \in Owners, m \in ParamMins, q \in ParamQuorums :
           setConsensusParams(s, m, q)
    \/ \E s \in Senders, sc \in ReadScores : submitAssessment(s, 101, sc, "")
    \/ \E t \in {101, 102} : requestAssessment(3, t)

SpecParams == InitParams /\ [][NextParams]_vars

(***************************************************************************)
(* The rotation scenario (SpecRotation): the deployment of SpecQueue; the  *)
(* owner removes reporters and registers them again, both reporters submit *)
(* for targets 101 and 102 with and without evidence, and the owner resets *)
(* target 101.                                                             *)
(***************************************************************************)
NextRotation ==
    \/ \E o \in {1, 2} : removeOracle(owner, o)
    \/ \E o \in {1, 2} : registerOracle(owner, o)
    \/ \E s \in {1, 2}, t \in {101, 102}, inp \in TimelineInputs :
           submitAssessment(s, t, inp[1], inp[2])
    \/ adminResetTarget(owner, 101)

SpecRotation == InitQueue /\ [][NextRotation]_vars

(***************************************************************************)
(* The registry scenario (SpecRegistry): the contract is deployed with an  *)
(* initial reporter list that may be empty and may hold the null address   *)
(* and repeated entries; identities 1 (the owner) and 2 register and       *)
(* remove every identity, the null address included.                       *)
(***************************************************************************)
CtorLists == {<<>>, <<1, 2>>, <<0, 1>>, <<2, 0, 2, 1>>}

InitRegistry ==
    /\ \E l \in CtorLists : constructor(1, l, 2, 50)
    /\ now = 1

NextRegistry ==
    \/ \E s \in Owners, o \in Identities : registerOracle(s, o)
    \/ \E s \in Owners, o \in Identities : removeOracle(s, o)

SpecRegistry == InitRegistry /\ [][NextRegistry]_vars

(***************************************************************************)
(* The score scenario (SpecScores): the deployment of SpecQueue; the two   *)
(* reporters submit for target 101 the scores at the ends of the range,    *)
(* at the first category boundary and above the range (uint8 ends at 255), *)
(* the owner lowers the minimum to one submission and resets the target.   *)
(***************************************************************************)
EdgeScores == {0, 30, 100, 101, 255}

NextScores ==
    \/ \E s \in {1, 2}, sc \in EdgeScores : submitAssessment(s, 101, sc, "")
    \/ setConsensusParams(owner, 1, 50)
    \/ adminResetTarget(owner, 101)

SpecScores == InitQueue /\ [][NextScores]_vars

(***************************************************************************)
(* The low-quorum scenario (SpecLowQuorum): the contract is deployed with  *)
(* three reporters, a minimum of 1 (as scripts/deploy.js), 2 or 3 and a    *)
(* quorum of 1 (as scripts/deploy.js), 33 or 34; the parameters are never  *)
(* changed; every identity submits a score of each category for target     *)
(* 101, and the owner resets the target.                                   *)
(***************************************************************************)
LowMins == {1, 2, 3}
LowQuorums == {1, 33, 34}
SpreadScores == {10, 50, 85}

InitLowQuorum ==
    /\ \E m \in LowMins, q \in LowQuorums : constructor(1, <<1, 2, 3>>, m, q)
    /\ now = 1

NextLowQuorum ==
    \/ \E s \in Senders, sc \in SpreadScores : submitAssessment(s, 101, sc, "")
    \/ adminResetTarget(owner, 101)

SpecLowQuorum == InitLowQuorum /\ [][NextLowQuorum]_vars

(***************************************************************************)
(* The two-version scenario (SpecBoth): the deployment of SpecQueue;       *)
(* identities 1 and 2 call every owner function with valid and invalid     *)
(* arguments, every identity submits for target 101 or the null address,   *)
(* and identity 3 requests every target in between.                        *)
(***************************************************************************)
BothParams == {<<1, 100>>, <<0, 50>>}
BothInputs == {<<10, "">>, <<85, "cidA">>, <<101, "">>}

NextBoth ==
    \/ \E s \in Owners, o \in {0, 2} : registerOracle(s, o)
    \/ \E s \in Owners : removeOracle(s, 2)
    \/ \E s \in Owners, p \in BothParams : setConsensusParams(s, p[1], p[2])
    \/ \E s \in Senders, t \in {0, 101}, inp \in BothInputs :
           submitAssessment(s, t, inp[1], inp[2])
    \/ \E s \in Owners : adminResetTarget(s, 101)
    \/ \E s \in Owners, n \in {0, 2} : transferOwnership(s, n)
    \/ \E t \in Targets : requestAssessment(3, t)

SpecBoth == InitQueue /\ [][NextBoth]_vars

(***************************************************************************)
(* Vocabulary of the properties, stated without the loops of the code.     *)
(***************************************************************************)
\* The category of a score by the documented thresholds.
CategoryOf(s) == CASE s <= 30 -> 0
                   [] s > 30 /\ s < 70 -> 1
                   [] s >= 70 -> 2

\* Number of submissions of subs that fall in category c.
Votes(subs, c) ==
    Cardinality({i \in DOMAIN subs : CategoryOf(subs[i].score) = c})

RECURSIVE SumScores(_)
SumScores(subs) ==
    IF subs = <<>> THEN 0 ELSE subs[1].score + SumScores(Tail(subs))

\* c has the most votes, and the lowest number among those that have.
IsPlurality(subs, c) ==
    \A d \in Categories :
        /\ Votes(subs, c) >= Votes(subs, d)
        /\ Votes(subs, d) = Votes(subs, c) => c <= d

\* Enough submissions, and the plurality category meets the quorum.
QuorumHolds(subs, min, quorum) ==
    /\ Len(subs) >= min
    /\ \E c \in Categories :
          IsPlurality(subs, c) /\ Votes(subs, c) * 100 >= quorum * Len(subs)

\* Indices of the submissions of category c with evidence / with evidence.
WithEvidenceIn(subs, c) ==
    {i \in DOMAIN subs : CategoryOf(subs[i].score) = c /\ subs[i].ipfsCid # ""}
WithEvidence(subs) == {i \in DOMAIN subs : subs[i].ipfsCid # ""}
Least(S) == CHOOSE i \in S : \A j \in S : i <= j

ScoresOf(t) == [i \in DOMAIN assessments[t] |-> assessments[t][i].score]
CidsOf(t) == [i \in DOMAIN assessments[t] |-> assessments[t][i].ipfsCid]
ResetDone(t) ==
    call = [op |-> "adminResetTarget", target |-> t] /\ result = "ok"

\* The errors of the preconditions that a submission (s, t, sc) violates.
Violated(s, t, sc) ==
    {r \in {"Only whitelisted oracle", "invalid target", "score 0..100",
            "finalized", "already submitted"} :
        \/ r = "Only whitelisted oracle" /\ ~isOracle[s]
        \/ r = "invalid target" /\ t = 0
        \/ r = "score 0..100" /\ sc > 100
        \/ r = "finalized" /\ isFinalized[t]
        \/ r = "already submitted" /\ hasSubmitted[t][s]}

\* A call by s of one of the functions that carry the modifier onlyOwner.
OwnerOps ==
    {"registerOracle", "removeOracle", "setConsensusParams",
     "adminResetTarget", "transferOwnership"}

OwnerCall(s) ==
    \/ \E o \in Identities : registerOracle(s, o)
    \/ \E o \in Identities : removeOracle(s, o)
    \/ \E p \in AdminParams : setConsensusParams(s, p[1], p[2])
    \/ \E t \in Targets : adminResetTarget(s, t)
    \/ \E n \in Identities : transferOwnership(s, n)

\* The identities that the ownership scenario never registers: its
\* constructor registers 1 and 2, and registerOracle is called for 2 only.
NeverRegistered == Senders \ {1, 2}

\* Number of entries of list that are x.
Count(list, x) == Cardinality({i \in DOMAIN list : list[i] = x})

\* The step finalizes t, or is a successful reset of t.
FinalizesOrResets(t) ==
    \/ ~isFinalized[t] /\ isFinalized'[t]
    \/ ResetDone(t)'

\* The step is an accepted submitAssessment for t.
SubmitDone(t) ==
    call = [op |-> "submitAssessment", target |-> t] /\ result = "ok"

\* The events of the given kind in a log.
EventsOf(log, kind) == {i \in DOMAIN log : log[i].event = kind}

\* The tuple getFinalRisk returns for a verdict with the payload of the
\* RiskAlertIssued event e.
PayloadOf(e) ==
    <<e.aggregatedScore, e.category, e.ipfsCid, e.timestamp, e.numSubmissions,
      TRUE>>

\* The scores of a non-empty sequence of submissions.
ScoreSet(subs) == {subs[i].score : i \in DOMAIN subs}
MinScore(subs) == CHOOSE m \in ScoreSet(subs) : \A x \in ScoreSet(subs) : m <= x
MaxScore(subs) == CHOOSE m \in ScoreSet(subs) : \A x \in ScoreSet(subs) : m >= x

\* Target t is open although its submissions pass the quorum check under
\* the parameters in force.
OpenDespiteQuorum(t) ==
    /\ ~isFinalized[t]
    /\ QuorumHolds(assessments[t], minRequiredSubmissions, quorumPercent)

\* The functions of the contract that write storage.
MutatingOps ==
    {"submitAssessment", "requestAssessment", "registerOracle", "removeOracle",
     "setConsensusParams", "adminResetTarget", "transferOwnership"}

(***************************************************************************)
(* Properties.                                                             *)
(***************************************************************************)

\* C1: once a target is finalized, the tuple getFinalRisk returns for it is
\* the same after every step that is not a successful adminResetTarget of
\* that target (so a sealed verdict is never replaced by a second one).
C1_VerdictImmutable ==
    [][\A t \in Targets :
          isFinalized[t] =>
             \/ getFinalRisk(t)' = getFinalRisk(t)
             \/ ResetDone(t)']_vars

C1_Witness ==
    /\ isFinalized[101]
    /\ getFinalRisk(101)[6] = TRUE
    /\ call.op = "removeOracle"
    /\ result = "ok"

\* C2 as stated: every submitAssessment for a finalized target fails with
\* the reason "finalized", whoever calls and whatever the score.
C2_AlwaysFinalizedError ==
    [][\A t \in Targets :
          (isFinalized[t] /\ call'.op = "submitAssessment" /\ call'.target = t)
             => (result' = "finalized" /\ assessments'[t] = assessments[t])]_vars

\* C2 as amended: every submitAssessment for a finalized target fails and
\* leaves the storage unchanged; the reason is "finalized" when the caller is
\* an authorized reporter and the score is at most 100, the authorization
\* error when the caller is not a reporter, the score error otherwise.
C2_FinalizedRejects ==
    [][\A s \in Senders, t \in Targets, sc \in LifecycleScores,
          cid \in LifecycleCids :
          (isFinalized[t] /\ submitAssessment(s, t, sc, cid))
             => /\ result' = IF ~isOracle[s] THEN "Only whitelisted oracle"
                             ELSE IF sc > 100 THEN "score 0..100"
                             ELSE "finalized"
                /\ UNCHANGED storage
                /\ emitted' = <<>>]_vars

C2_Witness ==
    /\ isFinalized[101]
    /\ call = [op |-> "submitAssessment", target |-> 101]
    /\ result = "finalized"

\* C3: a step that appends a submission to a target finalizes it iff the
\* submissions then recorded are at least minRequiredSubmissions and the
\* votes of the plurality category times 100 reach quorumPercent times their
\* number; otherwise the target stays open with no verdict.
C3_FinalizesIffQuorum ==
    [][\A t \in Targets :
          Len(assessments'[t]) = Len(assessments[t]) + 1 =>
             /\ isFinalized'[t] <=>
                   QuorumHolds(assessments'[t], minRequiredSubmissions,
                               quorumPercent)
             /\ ~isFinalized'[t] =>
                   /\ finalRisks'[t] = ZeroFinalRisk
                   /\ getFinalRisk(t)' = <<0, 0, "", 0, 0, FALSE>>]_vars

C3_Witness ==
    /\ minRequiredSubmissions = 3
    /\ quorumPercent = 66
    /\ ScoresOf(101) = <<85, 75, 10>>
    /\ call.op = "submitAssessment"
    /\ result = "ok"
    /\ isFinalized[101]

\* C4: the category of a verdict has the highest vote count among the
\* target's submissions, and no lower-numbered category has as many votes.
C4_PluralityLowestWins ==
    \A t \in Targets :
        isFinalized[t] => IsPlurality(assessments[t], finalRisks[t].category)

C4_Witness ==
    /\ minRequiredSubmissions = 2
    /\ quorumPercent = 50
    /\ ScoresOf(101) = <<85, 10>>
    /\ isFinalized[101]
    /\ finalRisks[101].category = 0

C6_Classifier ==
    /\ \A s \in 0..100 :
          /\ _scoreToCategory(s) = 0 <=> s <= 30
          /\ _scoreToCategory(s) = 1 <=> (30 < s /\ s < 70)
          /\ _scoreToCategory(s) = 2 <=> s >= 70
          /\ scoreToCategory(s) = _scoreToCategory(s)
    /\ \A t \in Targets :
          (isFinalized[t] /\ Len(assessments[t]) = 1) =>
             /\ finalRisks[t].category = CategoryOf(assessments[t][1].score)
             /\ finalRisks[t].category = scoreToCategory(assessments[t][1].score)

C6_Witness ==
    /\ isFinalized[101]
    /\ ScoresOf(101) = <<30>>
    /\ finalRisks[101].category = 0

\* C7: no reporter occurs twice in a target's submission sequence, and a
\* reporter that occurs in it cannot submit for the target, whatever has
\* happened to its registration since.
C7_OncePerTarget ==
    \A t \in Targets :
        /\ \A i, j \in DOMAIN assessments[t] :
              assessments[t][i].oracle = assessments[t][j].oracle => i = j
        /\ \A i \in DOMAIN assessments[t], sc \in LifecycleScores :
              submitChecks(assessments[t][i].oracle, t, sc) # "ok"

C7_Witness ==
    /\ \E i \in DOMAIN assessments[101] : assessments[101][i].oracle = 3
    /\ ~isFinalized[101]
    /\ isOracle[3]
    /\ call.op = "registerOracle"
    /\ result = "ok"

C10_ResetRoundTrip ==
    \A t \in Targets :
        ResetDone(t) =>
            /\ getAssessmentCount(t) = 0
            /\ getFinalRisk(t) = <<0, 0, "", 0, 0, FALSE>>
            /\ ~isPending[t]
            /\ \A i \in DOMAIN getPendingTasks : getPendingTasks[i] # t
            /\ \A o \in Identities :
                  /\ ~hasSubmitted[t][o]
                  /\ (isOracle[o] /\ t # 0) => submitChecks(o, t, 10) = "ok"

C10_Witness ==
    /\ ResetDone(101)
    /\ isOracle[3]
    /\ owner = 2

\* C11: the finalized flag of a target goes from false to true only in a
\* successful submitAssessment for that target and from true to false only
\* in a successful adminResetTarget of that target; every other call
\* (requests, registry, parameter and ownership changes, every view function)
\* leaves the flag of every target as it was.
C11_FlagTransitions ==
    [][\A t \in Targets :
          /\ (~isFinalized[t] /\ isFinalized'[t]) =>
                (call' = [op |-> "submitAssessment", target |-> t]
                 /\ result' = "ok")
          /\ (isFinalized[t] /\ ~isFinalized'[t]) => ResetDone(t)'
          /\ call'.op \notin {"submitAssessment", "adminResetTarget"} =>
                isFinalized'[t] = isFinalized[t]]_vars

C11_Witness ==
    /\ isFinalized[101]
    /\ call = [op |-> "requestAssessment", target |-> 101]
    /\ result = "already finalized"
    /\ owner = 2

C13_DistinctErrors ==
    [][\A s \in Senders, t \in Targets, sc \in LifecycleScores,
          cid \in LifecycleCids :
          (call' = [op |-> "submitAssessment", target |-> t]
           /\ submitAssessment(s, t, sc, cid)) =>
             /\ result' = "ok" <=> Violated(s, t, sc) = {}
             /\ result' # "ok" => result' \in Violated(s, t, sc)
             /\ result' = "ok" =>
                   assessments'[t] =
                      Append(assessments[t],
                             [oracle |-> s, score |-> sc, ipfsCid |-> cid,
                              timestamp |-> now])]_vars

C13_Witness ==
    /\ call = [op |-> "submitAssessment", target |-> 101]
    /\ result = "already submitted"
    /\ Len(assessments[101]) = 2
    /\ ~isFinalized[101]

\* C14: a call of registerOracle, removeOracle, setConsensusParams,
\* adminResetTarget or transferOwnership succeeds only when the caller is
\* the current owner; by any other caller it fails with "Only owner" and
\* changes nothing, also after ownership has moved: the call is then never
\* refused to the new owner for being the caller, and the previous owner is
\* refused.
C14_OnlyOwner ==
    [][\A s \in Senders :
          (call'.op \in OwnerOps /\ OwnerCall(s)) =>
             /\ result' = "ok" => s = owner
             /\ s = owner => result' # "Only owner"
             /\ (s = owner /\ call'.op = "adminResetTarget") => result' = "ok"
             /\ s # owner =>
                   /\ result' = "Only owner"
                   /\ UNCHANGED storage
                   /\ emitted' = <<>>]_vars

C14_Witness ==
    /\ owner = 2
    /\ call.op = "transferOwnership"
    /\ result = "Only owner"

\* C15: a step that adds an assessment is a submitAssessment by an identity
\* that is a reporter when it calls; a submitAssessment by an identity that
\* is not a reporter fails with "Only whitelisted oracle" and adds nothing;
\* an identity is a reporter from its registration (or the constructor) to
\* its removal and not from its removal to its next registration; and no
\* assessment is ever by an identity that was never registered.
C15_OnlyReporters ==
    [][/\ \A t \in Targets :
             Len(assessments'[t]) > Len(assessments[t]) =>
                /\ call' = [op |-> "submitAssessment", target |-> t]
                /\ assessments'[t] =
                      Append(assessments[t],
                             assessments'[t][Len(assessments'[t])])
                /\ isOracle[assessments'[t][Len(assessments'[t])].oracle]
       /\ \A s \in Senders, t \in Targets, sc \in LifecycleScores,
             cid \in LifecycleCids :
             (call' = [op |-> "submitAssessment", target |-> t]
              /\ ~isOracle[s] /\ submitAssessment(s, t, sc, cid)) =>
                (result' = "Only whitelisted oracle"
                 /\ assessments' = assessments)
       /\ \A o \in Identities :
             /\ (isOracle[o] /\ ~isOracle'[o]) =>
                   (call'.op = "removeOracle" /\ result' = "ok")
             /\ (~isOracle[o] /\ isOracle'[o]) =>
                   (call'.op = "registerOracle" /\ result' = "ok")
       /\ \A t \in Targets :
             \A i \in DOMAIN assessments'[t] :
                assessments'[t][i].oracle \notin NeverRegistered]_vars

C15_Witness ==
    /\ call = [op |-> "submitAssessment", target |-> 101]
    /\ result = "Only whitelisted oracle"
    /\ ~isOracle[2]
    /\ Len(assessments[101]) = 1
    /\ assessments[101][1].oracle = 2

\* C16: a requestAssessment for a target that is neither null nor finalized
\* succeeds and leaves exactly one entry of the target in the pending list;
\* when the target was already pending the list is left unchanged; so no
\* target ever has two entries.
C16_RequestIdempotent ==
    [][\A t \in Targets :
          /\ Count(pendingContracts', t) <= 1
          /\ (call' = [op |-> "requestAssessment", target |-> t]
              /\ t # 0 /\ ~isFinalized[t]) =>
                /\ result' = "ok"
                /\ Count(getPendingTasks', t) = 1
                /\ isPending'[t]
                /\ isPending[t] =>
                      (pendingContracts' = pendingContracts
                       /\ isPending' = isPending)]_vars

C16_Witness ==
    /\ call = [op |-> "requestAssessment", target |-> 101]
    /\ result = "ok"
    /\ emitted = <<>>
    /\ pendingContracts = <<102, 101>>

\* C17 as stated: every successful requestAssessment emits a TaskRequested
\* event, also when the target is already pending.
C17_AlwaysNotifies ==
    [][(call'.op = "requestAssessment" /\ result' = "ok") =>
          \E i \in DOMAIN emitted' : emitted'[i].event = "TaskRequested"]_vars

\* C17 as amended: a successful requestAssessment(t) by s emits exactly one
\* event, TaskRequested(t, s), when t was not pending before the call; when
\* t was already pending it emits nothing and changes no storage.
C17_NotifiesWhenQueued ==
    [][\A s \in Senders, t \in Targets :
          (call' = [op |-> "requestAssessment", target |-> t]
           /\ result' = "ok" /\ requestAssessment(s, t)) =>
             /\ ~isPending[t] =>
                   emitted' = <<[event |-> "TaskRequested", target |-> t,
                                 requester |-> s]>>
             /\ isPending[t] => (emitted' = <<>> /\ UNCHANGED storage)]_vars

C17_Witness ==
    /\ call = [op |-> "requestAssessment", target |-> 102]
    /\ result = "ok"
    /\ emitted = <<>>
    /\ pendingContracts = <<102>>
    /\ Len(assessments[102]) = 1

C19_FinalRiskSentinel ==
    \A t \in Targets :
        call = [op |-> "getFinalRisk", target |-> t] =>
            /\ result = "ok"
            /\ ~isFinalized[t] => returned = <<0, 0, "", 0, 0, FALSE>>
            /\ isFinalized[t] =>
                  /\ returned = <<finalRisks[t].aggregatedScore,
                                  finalRisks[t].category, finalRisks[t].ipfsCid,
                                  finalRisks[t].timestamp,
                                  finalRisks[t].numSubmittingOracles, TRUE>>
                  /\ returned[5] = Len(assessments[t])
                  /\ returned[5] >= 1

C19_Witness ==
    /\ call = [op |-> "getFinalRisk", target |-> 101]
    /\ result = "ok"
    /\ ~isFinalized[101]
    /\ Len(assessments[101]) = 2
    /\ returned = <<0, 0, "", 0, 0, FALSE>>

\* C20: getAssessment(t, i) fails with "index OOB" iff i is at least
\* getAssessmentCount(t); below the count it returns the reporter, score,
\* evidence and time of the (i+1)-th stored assessment; an accepted
\* submission by s with (sc, cid) in a block of time `now` becomes the
\* assessment at index count, read back as (s, sc, cid, now); the tuple at
\* an index below the count is the same after every step that is not a
\* successful reset of the target, and a reset leaves the count at 0.
C20_AssessmentReads ==
    [][\A t \in Targets :
          /\ call' = [op |-> "getAssessment", target |-> t] =>
                \A i \in ReadIndices :
                   getAssessmentCall(t, i) =>
                      /\ result' = "index OOB" <=> i >= getAssessmentCount(t)
                      /\ result' # "index OOB" => result' = "ok"
                      /\ i < getAssessmentCount(t) =>
                            returned' = <<assessments[t][i + 1].oracle,
                                          assessments[t][i + 1].score,
                                          assessments[t][i + 1].ipfsCid,
                                          assessments[t][i + 1].timestamp>>
          /\ (call' = [op |-> "submitAssessment", target |-> t]
              /\ result' = "ok") =>
                \A s \in Senders, inp \in TimelineInputs, n \in ReadIndices :
                   (n = getAssessmentCount(t)
                    /\ submitAssessment(s, t, inp[1], inp[2])) =>
                      /\ getAssessmentCount(t)' = n + 1
                      /\ getAssessment(t, n)' =
                            [result |-> "ok",
                             returned |-> <<s, inp[1], inp[2], now>>]
          /\ \A i \in ReadIndices :
                (i < getAssessmentCount(t) /\ ~ResetDone(t)') =>
                   getAssessment(t, i)' = getAssessment(t, i)
          /\ ResetDone(t)' => getAssessmentCount(t)' = 0]_vars

C20_Witness ==
    /\ call = [op |-> "getAssessment", target |-> 101]
    /\ result = "ok"
    /\ returned = <<2, 85, "cidA", 2>>
    /\ Len(assessments[101]) = 3
    /\ assessments[101][1].timestamp = 1
    /\ assessments[101][2] =
          [oracle |-> 2, score |-> 85, ipfsCid |-> "cidA", timestamp |-> 2]
    /\ isFinalized[101]

\* C21: the submission count of a target decreases only in a successful
\* adminResetTarget of that target; an accepted submitAssessment for the
\* target adds exactly one assessment after those already stored; every
\* other step (any other call, for this or another target, failed or not,
\* every view call) leaves the count as it was.
C21_CountMonotone ==
    [][\A t \in Targets :
          /\ getAssessmentCount(t)' < getAssessmentCount(t) => ResetDone(t)'
          /\ SubmitDone(t)' =>
                /\ getAssessmentCount(t)' = getAssessmentCount(t) + 1
                /\ SubSeq(assessments'[t], 1, Len(assessments[t])) =
                      assessments[t]
          /\ (~SubmitDone(t)' /\ ~ResetDone(t)') =>
                getAssessmentCount(t)' = getAssessmentCount(t)
          /\ ResetDone(t)' => getAssessmentCount(t)' = 0]_vars

C21_Witness ==
    /\ call.op = "removeOracle"
    /\ result = "ok"
    /\ getAssessmentCount(101) = 3
    /\ assessments[101][2].oracle = 3
    /\ ~isOracle[3]

\* C22: each event is emitted once, in the step that causes it: a
\* successful registerOracle emits one OracleNodeRegistered of the identity
\* registered and nothing else, a successful removeOracle one
\* OracleNodeRemoved of the identity removed and nothing else, an accepted
\* submitAssessment one AssessmentSubmitted of the assessment stored,
\* followed by one RiskAlertIssued for the target exactly when the step
\* finalizes it; a RiskAlertIssued is emitted only by a step that turns the
\* finalized flag of its target from false to true; a failed call emits
\* nothing, and no other call emits one of these four events.
C22_EventsOncePerTransition ==
    [][/\ (call'.op = "registerOracle" /\ result' = "ok") =>
             /\ Len(emitted') = 1
             /\ emitted'[1].event = "OracleNodeRegistered"
             /\ ~isOracle[emitted'[1].oracle] /\ isOracle'[emitted'[1].oracle]
       /\ (call'.op = "removeOracle" /\ result' = "ok") =>
             /\ Len(emitted') = 1
             /\ emitted'[1].event = "OracleNodeRemoved"
             /\ isOracle[emitted'[1].oracle] /\ ~isOracle'[emitted'[1].oracle]
       /\ \A t \in Targets :
             SubmitDone(t)' =>
                LET a == assessments'[t][Len(assessments'[t])]
                IN /\ emitted'[1] =
                         [event |-> "AssessmentSubmitted", target |-> t,
                          oracle |-> a.oracle, score |-> a.score,
                          ipfsCid |-> a.ipfsCid]
                   /\ IF ~isFinalized[t] /\ isFinalized'[t]
                      THEN /\ Len(emitted') = 2
                           /\ emitted'[2].event = "RiskAlertIssued"
                           /\ emitted'[2].target = t
                      ELSE Len(emitted') = 1
       /\ \A i \in EventsOf(emitted', "RiskAlertIssued") :
             /\ ~isFinalized[emitted'[i].target]
             /\ isFinalized'[emitted'[i].target]
             /\ call' = [op |-> "submitAssessment",
                         target |-> emitted'[i].target]
             /\ result' = "ok"
       /\ result' # "ok" => emitted' = <<>>
       /\ EventsOf(emitted', "OracleNodeRegistered") # {} =>
             call'.op = "registerOracle"
       /\ EventsOf(emitted', "OracleNodeRemoved") # {} =>
             call'.op = "removeOracle"
       /\ EventsOf(emitted', "AssessmentSubmitted") # {} =>
             call'.op = "submitAssessment"]_vars

C22_Witness ==
    /\ SubmitDone(101)
    /\ Len(emitted) = 2
    /\ emitted[1].event = "AssessmentSubmitted"
    /\ emitted[1].oracle = 2
    /\ emitted[2].event = "RiskAlertIssued"
    /\ emitted[2].numSubmissions = 2

\* C23: the payload of a RiskAlertIssued event (aggregated score, category,
\* evidence, time, submission count) is what getFinalRisk returns for its
\* target from the step that emits it, with finalized = true and a time
\* that is not zero (the time of the finalizing block); the tuple stays the
\* same in every later step up to a reset of the target, and a call of
\* getFinalRisk returns it.
C23_AlertEqualsVerdict ==
    [][/\ \A i \in EventsOf(emitted', "RiskAlertIssued") :
             /\ emitted'[i].timestamp # 0
             /\ emitted'[i].target \in Targets
       /\ \A t \in Targets :
             /\ \A i \in EventsOf(emitted', "RiskAlertIssued") :
                   emitted'[i].target = t =>
                      /\ getFinalRisk(t)' = PayloadOf(emitted'[i])
                      /\ emitted'[i].numSubmissions = getAssessmentCount(t)'
                      /\ ~isFinalized[t] => emitted'[i].timestamp = now'
             /\ (isFinalized[t] /\ ~ResetDone(t)') =>
                   getFinalRisk(t)' = getFinalRisk(t)
             /\ call' = [op |-> "getFinalRisk", target |-> t] =>
                   returned' = getFinalRisk(t)]_vars

C23_Witness ==
    /\ call = [op |-> "getFinalRisk", target |-> 101]
    /\ now = 2
    /\ returned = <<60, 2, "cidA", 1, 3, TRUE>>

\* C24: setConsensusParams(m, q) succeeds iff the caller is the owner,
\* m >= 1 and 1 <= q <= 100, and then the two parameters are m and q from
\* that step on (the next submission is evaluated against them); in every
\* state, from the construction with any accepted arguments onwards,
\* minRequiredSubmissions >= 1 and 1 <= quorumPercent <= 100.
C24_ParamsInRange ==
    [][/\ minRequiredSubmissions >= 1
       /\ quorumPercent >= 1 /\ quorumPercent <= 100
       /\ minRequiredSubmissions' >= 1
       /\ quorumPercent' >= 1 /\ quorumPercent' <= 100
       /\ call'.op = "setConsensusParams" =>
             \A s \in Owners, m \in ParamMins, q \in ParamQuorums :
                setConsensusParams(s, m, q) =>
                   /\ result' = "ok" <=>
                         (s = owner /\ m >= 1 /\ q >= 1 /\ q <= 100)
                   /\ result' = "ok" =>
                         (minRequiredSubmissions' = m /\ quorumPercent' = q)
                   /\ result' # "ok" =>
                         (minRequiredSubmissions' = minRequiredSubmissions
                          /\ quorumPercent' = quorumPercent)
       /\ call'.op # "setConsensusParams" =>
             (minRequiredSubmissions' = minRequiredSubmissions
              /\ quorumPercent' = quorumPercent)
       /\ \A t \in Targets :
             SubmitDone(t)' =>
                (isFinalized'[t] <=>
                    QuorumHolds(assessments'[t], minRequiredSubmissions,
                                quorumPercent))]_vars

C24_Witness ==
    /\ call.op = "setConsensusParams"
    /\ result = "ok"
    /\ minRequiredSubmissions = 1
    /\ quorumPercent = 100
    /\ Len(assessments[101]) = 1
    /\ ~isFinalized[101]


\* C25: when reporters submit for one target in any order (and nothing resets
\* it), the accepted submissions come from distinct reporters and are kept
\* in the order of acceptance; the target is finalized by the first accepted
\* submission after which the quorum check passes and by no other step;
\* every submission after that is rejected (as finalized, or because the
\* caller is no reporter at all) and changes nothing, and the
\* verdict counts exactly the submissions accepted up to and including the
\* finalizing one.
C25_OneFinalizer ==
    [][\A t \in Targets :
          /\ \A i, j \in DOMAIN assessments'[t] :
                i # j => assessments'[t][i].oracle # assessments'[t][j].oracle
          /\ SubmitDone(t)' =>
                /\ ~isFinalized[t]
                /\ Len(assessments'[t]) = Len(assessments[t]) + 1
                /\ SubSeq(assessments'[t], 1, Len(assessments[t]))
                      = assessments[t]
                /\ isFinalized'[t] <=>
                      QuorumHolds(assessments'[t], minRequiredSubmissions,
                                  quorumPercent)
          /\ ~SubmitDone(t)' =>
                /\ assessments'[t] = assessments[t]
                /\ finalRisks'[t] = finalRisks[t]
                /\ isFinalized'[t] = isFinalized[t]
          /\ isFinalized[t] =>
                /\ isFinalized'[t]
                /\ assessments'[t] = assessments[t]
                /\ finalRisks'[t] = finalRisks[t]
                /\ call' = [op |-> "submitAssessment", target |-> t] =>
                      result' \in {"Only whitelisted oracle", "finalized"}
          /\ isFinalized'[t] =>
                /\ finalRisks'[t].numSubmittingOracles = Len(assessments'[t])
                /\ finalRisks'[t].aggregatedScore =
                      SumScores(assessments'[t]) \div Len(assessments'[t])
                /\ IsPlurality(assessments'[t], finalRisks'[t].category)
          /\ ~isFinalized'[t] => finalRisks'[t] = ZeroFinalRisk]_vars

\* Reporters 3 and 1 finalized target 101 in that order; reporter 2, which
\* had not submitted, was then rejected.
C25_Witness ==
    /\ call = [op |-> "submitAssessment", target |-> 101]
    /\ result = "finalized"
    /\ isFinalized[101]
    /\ finalRisks[101].numSubmittingOracles = 2
    /\ assessments[101][1].oracle = 3
    /\ assessments[101][2].oracle = 1
    /\ ~hasSubmitted[101][2]


\* C26: a call of setConsensusParams changes nothing but the two parameters:
\* the submissions, duplicate markers, finalized flags, verdicts, pending
\* list and flags, owner and reporters stay as they were and no event is
\* emitted.  A target therefore becomes finalized only in the step of an
\* accepted submission for it, even when its recorded submissions satisfy
\* the new parameters earlier, and the verdict of a finalized target stays
\* as recorded whatever the parameters become.
C26_ParamsFrame ==
    [][/\ call'.op = "setConsensusParams" =>
             /\ assessments' = assessments
             /\ hasSubmitted' = hasSubmitted
             /\ isFinalized' = isFinalized
             /\ finalRisks' = finalRisks
             /\ pendingContracts' = pendingContracts
             /\ isPending' = isPending
             /\ owner' = owner
             /\ isOracle' = isOracle
             /\ oracleList' = oracleList
             /\ emitted' = <<>>
       /\ \A t \in Targets :
             /\ (~isFinalized[t] /\ isFinalized'[t]) => SubmitDone(t)'
             /\ (isFinalized[t] /\ ~ResetDone(t)') =>
                   /\ isFinalized'[t]
                   /\ getFinalRisk(t)' = getFinalRisk(t)]_vars

\* The parameters were just lowered to (1, 1); target 101 is pending and
\* holds two disagreeing submissions that satisfy them, and is still open.
C26_Witness ==
    /\ call.op = "setConsensusParams"
    /\ result = "ok"
    /\ minRequiredSubmissions = 1
    /\ quorumPercent = 1
    /\ Len(assessments[101]) = 2
    /\ QuorumHolds(assessments[101], minRequiredSubmissions, quorumPercent)
    /\ ~isFinalized[101]
    /\ isPending[101]


\* C27: a successful removeOracle(o) clears the reporter flag of o and takes
\* o out of the reporter list, and changes nothing else: submissions,
\* duplicate markers, verdicts, finalized flags, the pending queue, the
\* parameters, the owner and the other reporters stay as they were.  Every
\* later finalization is decided and computed over all recorded submissions,
\* those of removed reporters included: their number, the score sum, the
\* plurality and the evidence scan.
C27_RemovalKeepsSubmissions ==
    [][/\ (call'.op = "removeOracle" /\ result' = "ok") =>
             /\ \E o \in Identities :
                   /\ isOracle[o]
                   /\ isOracle' = [isOracle EXCEPT ![o] = FALSE]
                   /\ \A a \in Identities :
                         Count(oracleList', a) =
                            IF a = o THEN 0 ELSE Count(oracleList, a)
             /\ assessments' = assessments
             /\ hasSubmitted' = hasSubmitted
             /\ finalRisks' = finalRisks
             /\ isFinalized' = isFinalized
             /\ pendingContracts' = pendingContracts
             /\ isPending' = isPending
             /\ minRequiredSubmissions' = minRequiredSubmissions
             /\ quorumPercent' = quorumPercent
             /\ owner' = owner
       /\ \A t \in Targets :
             SubmitDone(t)' =>
                LET subs == assessments'[t]
                    M == WithEvidenceIn(subs, finalRisks'[t].category)
                    N == WithEvidence(subs)
                IN /\ isFinalized'[t] <=>
                         QuorumHolds(subs, minRequiredSubmissions, quorumPercent)
                   /\ isFinalized'[t] =>
                         /\ finalRisks'[t].numSubmittingOracles = Len(subs)
                         /\ finalRisks'[t].aggregatedScore
                               = SumScores(subs) \div Len(subs)
                         /\ IsPlurality(subs, finalRisks'[t].category)
                         /\ M # {} =>
                               finalRisks'[t].ipfsCid = subs[Least(M)].ipfsCid
                         /\ (M = {} /\ N # {}) =>
                               finalRisks'[t].ipfsCid = subs[Least(N)].ipfsCid
                         /\ N = {} => finalRisks'[t].ipfsCid = ""]_vars

\* Reporter 2 submitted (85, "cidA") for target 101 and was removed; the
\* submission of reporter 1 then finalized the target over both: two
\* submissions, mean 47, category 0 by the tie, and the evidence of the
\* removed reporter.
C27_Witness ==
    /\ SubmitDone(101)
    /\ ~isOracle[2]
    /\ assessments[101][1].oracle = 2
    /\ assessments[101][2].oracle = 1
    /\ ScoresOf(101) = <<85, 10>>
    /\ CidsOf(101) = <<"cidA", "">>
    /\ getFinalRisk(101) = <<47, 0, "cidA", 1, 2, TRUE>>


\* C28: the duplicate marker of (target, reporter) is set exactly while the
\* reporter has a submission recorded for the target, and only a reset of
\* the target clears it: removing the reporter and registering it again
\* leaves it set.  A registered reporter whose marker for an open target is
\* set is rejected with "already submitted", and one whose marker is not set
\* is accepted, whatever it has submitted for other targets.
C28_MarkerSurvivesRotation ==
    [][/\ \A t \in Targets, o \in Identities :
             /\ hasSubmitted'[t][o] <=>
                   \E i \in DOMAIN assessments'[t] : assessments'[t][i].oracle = o
             /\ (hasSubmitted[t][o] /\ ~ResetDone(t)') => hasSubmitted'[t][o]
       /\ call'.op \in {"registerOracle", "removeOracle"} =>
             hasSubmitted' = hasSubmitted
       /\ call'.op = "submitAssessment" =>
             \A s \in {1, 2}, t \in {101, 102}, inp \in TimelineInputs :
                (/\ call'.target = t
                 /\ submitAssessment(s, t, inp[1], inp[2])
                 /\ isOracle[s]
                 /\ ~isFinalized[t]) =>
                   /\ hasSubmitted[t][s] => result' = "already submitted"
                   /\ ~hasSubmitted[t][s] => result' = "ok"]_vars

\* Reporter 1 was removed and registered again (it is now the last of the
\* list), has submitted for both targets, and its second submission for the
\* open target 101 has just been rejected.
C28_Witness ==
    /\ call = [op |-> "submitAssessment", target |-> 101]
    /\ result = "already submitted"
    /\ oracleList = <<2, 1>>
    /\ isOracle[1] /\ isOracle[2]
    /\ hasSubmitted[101][1] /\ ~hasSubmitted[101][2]
    /\ hasSubmitted[102][1]
    /\ ~isFinalized[101]


\* C29: no target is both finalized and pending, and a finalized target has
\* no entry in the pending list; a requestAssessment for a target that is
\* not null fails with "already finalized" exactly when the target is
\* finalized; right after a submission that finalized the target it is not
\* pending, and right after a reset it is neither finalized nor pending.
C29_NeverFinalizedAndPending ==
    \A t \in Targets :
        /\ ~(isFinalized[t] /\ isPending[t])
        /\ isFinalized[t] => Count(getPendingTasks, t) = 0
        /\ (call = [op |-> "requestAssessment", target |-> t] /\ t # 0) =>
              /\ result = "already finalized" <=> isFinalized[t]
              /\ result = "ok" <=> ~isFinalized[t]
              /\ result = "ok" => isPending[t]
        /\ (SubmitDone(t) /\ isFinalized[t]) => ~isPending[t]
        /\ ResetDone(t) =>
              (~isFinalized[t] /\ ~isPending[t]
               /\ Count(getPendingTasks, t) = 0)

\* Target 101 was finalized and a request for it has just been refused;
\* target 102 is pending with one submission.
C29_Witness ==
    /\ call = [op |-> "requestAssessment", target |-> 101]
    /\ result = "already finalized"
    /\ isFinalized[101]
    /\ ~isPending[101]
    /\ getPendingTasks = <<102>>
    /\ Len(assessments[102]) = 1

\* C30: the pending list holds no target twice and never the null address,
\* and holds a target exactly when the pending flag of the target is set;
\* a step that shortens the list takes out the one entry of one target,
\* clears that target's flag, and keeps every other target as it was: once
\* in the list if it was pending, absent if not.
C30_PendingListIsASet ==
    [][/\ \A i, j \in DOMAIN getPendingTasks' :
             getPendingTasks'[i] = getPendingTasks'[j] => i = j
       /\ \A i \in DOMAIN getPendingTasks' : getPendingTasks'[i] # 0
       /\ \A t \in Targets :
             isPending'[t] <=>
                \E i \in DOMAIN getPendingTasks' : getPendingTasks'[i] = t
       /\ Len(pendingContracts') < Len(pendingContracts) =>
             \E t \in Targets :
                /\ isPending[t] /\ ~isPending'[t]
                /\ Len(pendingContracts') = Len(pendingContracts) - 1
                /\ \A u \in Targets \ {t} :
                      /\ isPending'[u] = isPending[u]
                      /\ Count(pendingContracts', u) = Count(pendingContracts, u)
                      /\ isPending[u] => Count(pendingContracts', u) = 1]_vars

\* Target 101 has just been reset and is not in the list; target 102, still
\* pending, is its only entry.
C30_Witness ==
    /\ ResetDone(101)
    /\ getPendingTasks = <<102>>
    /\ isPending[102]
    /\ ~isPending[101]
    /\ Len(assessments[102]) = 0


\* C31: in every state, the one after construction included, the reporter
\* list holds each registered identity once, no other identity, and never
\* the null address, and the constructor has emitted one registration per
\* entry.  registerOracle by the owner fails exactly for the null address
\* or a registered identity and otherwise appends the identity;
\* removeOracle by the owner fails exactly for an identity that is not
\* registered and otherwise puts the last entry in the place of the removed
\* one and shortens the list by one, every other entry kept.
C31_ReporterListIsASet ==
    [][/\ \A a \in Identities :
             /\ Count(oracleList, a) = (IF isOracle[a] THEN 1 ELSE 0)
             /\ Count(oracleList', a) = (IF isOracle'[a] THEN 1 ELSE 0)
       /\ ~isOracle[0] /\ ~isOracle'[0]
       /\ call.op = "constructor" => Len(emitted) = Len(oracleList)
       /\ call'.op = "registerOracle" =>
             \A o \in Identities :
                registerOracle(owner, o) =>
                   /\ result' # "ok" <=> (o = 0 \/ isOracle[o])
                   /\ result' = "ok" => oracleList' = Append(oracleList, o)
                   /\ result' # "ok" => oracleList' = oracleList
       /\ call'.op = "removeOracle" =>
             \A o \in Identities :
                removeOracle(owner, o) =>
                   /\ result' # "ok" <=> ~isOracle[o]
                   /\ result' # "ok" => oracleList' = oracleList
                   /\ result' = "ok" =>
                         /\ Len(oracleList') = Len(oracleList) - 1
                         /\ \A a \in Identities \ {o} :
                               Count(oracleList', a) = Count(oracleList, a)
                         /\ \A i \in DOMAIN oracleList' :
                               oracleList'[i] =
                                  IF oracleList[i] = o
                                  THEN oracleList[Len(oracleList)]
                                  ELSE oracleList[i]]_vars

\* Reporter 2 has just been removed from the head of a list of three, and
\* the last entry, 3, has taken its place.
C31_Witness ==
    /\ call.op = "removeOracle"
    /\ result = "ok"
    /\ oracleList = <<3, 1>>
    /\ ~isOracle[2]


\* C32: the owner is always one identity other than the null address, and
\* only transferOwnership changes it.  Called by the owner,
\* transferOwnership(newOwner) fails with "zero" exactly when newOwner is
\* the null address, leaving the owner as it was, and otherwise makes
\* newOwner the owner in that step, emits nothing and leaves the rest of
\* the storage as it was.
C32_OwnerNeverNull ==
    [][/\ owner \in Identities \ {0}
       /\ owner' \in Identities \ {0}
       /\ call'.op # "transferOwnership" => owner' = owner
       /\ call'.op = "transferOwnership" =>
             /\ \A n \in {0, 1, 2} :
                   transferOwnership(owner, n) =>
                      /\ result' = "zero" <=> n = 0
                      /\ result' = "ok" <=> n # 0
                      /\ owner' = (IF n = 0 THEN owner ELSE n)
             /\ isOracle' = isOracle
             /\ oracleList' = oracleList
             /\ minRequiredSubmissions' = minRequiredSubmissions
             /\ quorumPercent' = quorumPercent
             /\ hasSubmitted' = hasSubmitted
             /\ assessments' = assessments
             /\ finalRisks' = finalRisks
             /\ isFinalized' = isFinalized
             /\ pendingContracts' = pendingContracts
             /\ isPending' = isPending
             /\ emitted' = <<>>]_vars

\* Ownership went from 1 to 2 and a transfer to the null address by the new
\* owner has just been refused.
C32_Witness ==
    /\ call.op = "transferOwnership"
    /\ result = "zero"
    /\ owner = 2


\* C33: every recorded score is in 0..100; the aggregated score of a
\* finalized target is in 0..100, lies between the least and the greatest
\* recorded score of the target and is the mean itself, not a value cut to
\* eight bits; a submission is accepted only with a score of at most 100.
C33_ScoresInRange ==
    \A t \in Targets :
        /\ \A i \in DOMAIN assessments[t] :
              assessments[t][i].score \in 0..100
        /\ isFinalized[t] =>
              /\ finalRisks[t].aggregatedScore \in 0..100
              /\ finalRisks[t].aggregatedScore >= MinScore(assessments[t])
              /\ finalRisks[t].aggregatedScore <= MaxScore(assessments[t])
              /\ finalRisks[t].aggregatedScore =
                    SumScores(assessments[t]) \div Len(assessments[t])
        /\ SubmitDone(t) =>
              assessments[t][Len(assessments[t])].score <= 100

\* The scores 0 and 100 finalized target 101 with the mean 50.
C33_Witness ==
    /\ SubmitDone(101)
    /\ isFinalized[101]
    /\ ScoresOf(101) = <<0, 100>>
    /\ finalRisks[101].aggregatedScore = 50


\* C34: the category of a verdict is the winner of the vote count over the
\* categories of the stored scores, whatever the category of the aggregated
\* score is; the two can differ only when the submissions do not all fall
\* in the verdict's category.  The witness is the finalized state of the
\* test suite: scores 85, 75, 10, aggregated score 56 (caution), category 2
\* (danger).
C34_CategoryFromVotes ==
    \A t \in Targets :
        isFinalized[t] =>
            LET subs == assessments[t]
                cat == finalRisks[t].category
            IN /\ cat = Winner(Tally(subs).catCount).winningCat
               /\ Votes(subs, cat) >= 1
               /\ \A c \in Categories : Votes(subs, c) <= Votes(subs, cat)
               /\ cat # _scoreToCategory(finalRisks[t].aggregatedScore) =>
                     \E i \in DOMAIN subs : CategoryOf(subs[i].score) # cat

C34_Witness ==
    /\ isFinalized[101]
    /\ ScoresOf(101) = <<85, 75, 10>>
    /\ getFinalRisk(101)[1] = 56
    /\ getFinalRisk(101)[2] = 2
    /\ _scoreToCategory(getFinalRisk(101)[1]) = 1
    /\ SubmitDone(101)


\* C35: right after construction no target is open with submissions that
\* pass the quorum check under the parameters in force; a target gets into
\* that condition only in a step that is a successful setConsensusParams,
\* is out of it right after every accepted submission for it, and leaves
\* it only by such a submission or another change of the parameters (no
\* target is reset here).  So without a call of setConsensusParams no state
\* has such a target.
C35_QuorumMeansFinalized ==
    [][\A t \in Targets :
          /\ call.op = "constructor" => ~OpenDespiteQuorum(t)
          /\ (~OpenDespiteQuorum(t) /\ OpenDespiteQuorum(t)') =>
                (call'.op = "setConsensusParams" /\ result' = "ok")
          /\ SubmitDone(t)' => ~OpenDespiteQuorum(t)'
          /\ (OpenDespiteQuorum(t) /\ ~OpenDespiteQuorum(t)') =>
                \/ SubmitDone(t)'
                \/ call'.op = "setConsensusParams" /\ result' = "ok"]_vars

\* Under the parameters (1, 1) the third submission for target 101 has just
\* finalized it: the target was open with two submissions under these
\* parameters, which only a change of the parameters brings about.
C35_Witness ==
    /\ SubmitDone(101)
    /\ isFinalized[101]
    /\ Len(assessments[101]) = 3
    /\ minRequiredSubmissions = 1
    /\ quorumPercent = 1


C37_MarkerIffSubmission ==
    [][/\ \A t \in Targets, o \in Identities :
             /\ hasSubmitted[t][o] <=>
                   Cardinality({i \in DOMAIN assessments[t] :
                                   assessments[t][i].oracle = o}) = 1
             /\ ~hasSubmitted[t][o] <=>
                   Cardinality({i \in DOMAIN assessments[t] :
                                   assessments[t][i].oracle = o}) = 0
             /\ hasSubmitted'[t][o] <=>
                   Cardinality({i \in DOMAIN assessments'[t] :
                                   assessments'[t][i].oracle = o}) = 1
             /\ ~hasSubmitted'[t][o] <=>
                   Cardinality({i \in DOMAIN assessments'[t] :
                                   assessments'[t][i].oracle = o}) = 0
       /\ \A t \in Targets :
             ResetDone(t)' =>
                /\ \A o \in Identities : ~hasSubmitted'[t][o]
                /\ \A u \in Targets \ {t} :
                      /\ hasSubmitted'[u] = hasSubmitted[u]
                      /\ assessments'[u] = assessments[u]]_vars

\* Target 101 has just been reset and holds no marker; both reporters keep
\* their markers for target 102, and reporter 2 has been removed meanwhile.
C37_Witness ==
    /\ ResetDone(101)
    /\ \A o \in Identities : ~hasSubmitted[101][o]
    /\ hasSubmitted[102][1] /\ hasSubmitted[102][2]
    /\ ~isOracle[2]


\* C38: a call of submitAssessment, requestAssessment or adminResetTarget
\* for target t, accepted or not, leaves the submissions, duplicate markers,
\* finalized flag and verdict of every other target as they were, and every
\* other target pending exactly if it was, with one entry in the pending
\* list if so and none if not.
C38_OtherTargetsUntouched ==
    [][\A t \in Targets :
          (/\ call'.target = t
           /\ call'.op \in {"submitAssessment", "requestAssessment",
                             "adminResetTarget"}) =>
             \A u \in Targets \ {t} :
                /\ assessments'[u] = assessments[u]
                /\ hasSubmitted'[u] = hasSubmitted[u]
                /\ isFinalized'[u] = isFinalized[u]
                /\ finalRisks'[u] = finalRisks[u]
                /\ getFinalRisk(u)' = getFinalRisk(u)
                /\ isPending'[u] = isPending[u]
                /\ Count(pendingContracts', u) = Count(pendingContracts, u)]_vars

\* Target 101 has just been reset; target 102, finalized by both reporters,
\* keeps its verdict and its markers.
C38_Witness ==
    /\ ResetDone(101)
    /\ isFinalized[102]
    /\ getFinalRisk(102) = <<85, 2, "", 1, 2, TRUE>>
    /\ hasSubmitted[102][1] /\ hasSubmitted[102][2]
    /\ pendingContracts = <<>>


\* C39: the winning count of every tally of up to MaxVotes votes per
\* category passes the quorum comparison at 33, and while quorumPercent <=
\* 33 so does the plurality category of every non-empty stored sequence;
\* so (the parameters being those of the deployment) an accepted
\* submission finalizes the target
\* exactly when it brings the count to minRequiredSubmissions, an open
\* target holds fewer submissions than that and no target more; deployed
\* with minimum 1 and quorum 1 a target is finalized by its first accepted
\* submission and never holds more than one.
C39_LowQuorumAlwaysFinalizes ==
    /\ \A a, b, c \in 0..MaxVotes :
          a + b + c >= 1 =>
             Winner([k \in Categories |->
                        IF k = 0 THEN a ELSE IF k = 1 THEN b ELSE c]
                   ).winningCount * 100 >= 33 * (a + b + c)
    /\ \A t \in Targets :
        /\ (quorumPercent <= 33 /\ assessments[t] # <<>>) =>
              /\ \E c \in Categories :
                    /\ IsPlurality(assessments[t], c)
                    /\ Votes(assessments[t], c) * 100
                          >= quorumPercent * Len(assessments[t])
              /\ SubmitDone(t) =>
                    (isFinalized[t] <=>
                        Len(assessments[t]) >= minRequiredSubmissions)
              /\ ~isFinalized[t] => Len(assessments[t]) < minRequiredSubmissions
              /\ Len(assessments[t]) <= minRequiredSubmissions
        /\ (minRequiredSubmissions = 1 /\ quorumPercent = 1) =>
              /\ Len(assessments[t]) <= 1
              /\ Len(assessments[t]) = 1 => isFinalized[t]
              /\ SubmitDone(t) => isFinalized[t]

\* With minimum 3 and quorum 33 the three categories got one vote each and
\* the third submission finalized the target.
C39_Witness ==
    /\ SubmitDone(101)
    /\ minRequiredSubmissions = 3
    /\ quorumPercent = 33
    /\ ScoresOf(101) = <<10, 50, 85>>
    /\ isFinalized[101]


\* C40: the version with the queue and the version without it start from
\* the same storage, and every call of registerOracle, removeOracle,
\* setConsensusParams, submitAssessment, adminResetTarget or
\* transferOwnership on the version with the queue is, with the same
\* caller and arguments, a call of the version without: the same outcome,
\* the same events and the same change of owner, reporters, parameters,
\* submissions, duplicate markers, finalized flags and verdicts.  A
\* requestAssessment changes none of these.
C40_QueueVersionEquivalent ==
    [][/\ call.op = "constructor" => Plain_constructor(1, <<1, 2>>, 2, 50)
       /\ call'.op = "registerOracle" =>
             \A s \in Owners, o \in {0, 2} :
                registerOracle(s, o) => Plain_registerOracle(s, o)
       /\ call'.op = "removeOracle" =>
             \A s \in Owners :
                removeOracle(s, 2) => Plain_removeOracle(s, 2)
       /\ call'.op = "setConsensusParams" =>
             \A s \in Owners, p \in BothParams :
                setConsensusParams(s, p[1], p[2]) =>
                   Plain_setConsensusParams(s, p[1], p[2])
       /\ call'.op = "submitAssessment" =>
             \A s \in Senders, t \in {0, 101}, inp \in BothInputs :
                submitAssessment(s, t, inp[1], inp[2]) =>
                   Plain_submitAssessment(s, t, inp[1], inp[2])
       /\ call'.op = "adminResetTarget" =>
             \A s \in Owners :
                adminResetTarget(s, 101) => Plain_adminResetTarget(s, 101)
       /\ call'.op = "transferOwnership" =>
             \A s \in Owners, n \in {0, 2} :
                transferOwnership(s, n) => Plain_transferOwnership(s, n)
       /\ call'.op = "requestAssessment" => UNCHANGED Plain_storage]_vars

\* Target 101 has just been finalized by a submission while target 102 is
\* queued, reporter 2 has been removed and the ownership has moved to
\* identity 2.
C40_Witness ==
    /\ SubmitDone(101)
    /\ isFinalized[101]
    /\ getPendingTasks = <<102>>
    /\ ~isOracle[2]
    /\ owner = 2

====
